---------------------------- MODULE Spec2Model ----------------------------
(* State-machine model of the OCR recognition service: the HTTP handlers   *)
(* (api/*.py), the services (services/*.py), the Celery jobs (tasks/*.py)  *)
(* and the security helpers (utils/security.py).                           *)
(*                                                                         *)
(* Several specifications share the variables below; each one exercises    *)
(* the operations of one subsystem and leaves the other variables alone:   *)
(*   SpecOCR       the OCR job pipeline, task status, cancellation         *)
(*   SpecFiles     upload, dedup, deletion, age-based cleanup, ownership   *)
(*   SpecValidate  FileService.validate_file as a function of its inputs   *)
(*   SpecAuth      token verification, account (de)activation              *)
EXTENDS Integers, Sequences, FiniteSets, TLC

(***************************************************************************)
(* Bounds of the model                                                     *)
(***************************************************************************)
MaxTasks == 1
MaxSubmits == 2
MonthLength == 31
MaxPages == 2
MaxTime == 3
TickStep == 3      \* hours between two observations of the clock
MaxFiles == 2
MaxClock == 31     \* SpecFiles counts days, SpecAuth minutes
ClockStep == 31
MaxTokens == 2
MaxDeliveries == 2
MaxUploads == 2
MaxBeatTime == 27
BeatStep == 9
MaxUsers == 5

(***************************************************************************)
(* Program constants                                                       *)
(***************************************************************************)
max_retries == 3
default_retry_delay == 60
stuck_hours == 2
free_user_daily_quota == 100
premium_user_daily_quota == 10000
max_file_size == 52428800
access_token_expire_minutes == 30
cleanup_days == 30
failed_task_hours == 24

NoneT == -1       \* a DateTime column holding NULL

TaskIds == 1..MaxTasks
SubmitIds == 1..MaxSubmits
FileIds == 1..MaxFiles

\* users 1 and 2 are ordinary accounts, user 3 is an administrator
UserIds == {1, 2, 3}

VARIABLES
    now,          \* wall clock (datetime.now()), in the unit of the spec
    users,        \* table users:       id -> row
    quotas,       \* table user_quotas: user id -> daily / monthly row
    files,        \* table files:       id -> row or NoFile
    disk,         \* set of file paths present under the upload root
    tasks,        \* table ocr_tasks:   id -> row or NoTask
    ocr_results,  \* table ocr_results: sequence of rows in insertion order
    api_usage,    \* table api_usage:   sequence of rows in insertion order
    jobs,         \* Celery: the process_ocr_task job of each task
    cancel_jobs,  \* Celery: queued cancel_ocr_task jobs (task ids)
    engines,      \* OCRService.engines: names of the live engines
    tokens,       \* bearer tokens issued so far
    vin,          \* input of the last validate_file call
    vout,         \* result of the last validate_file call
    resp          \* the last operation and its outcome

vars == <<now, users, quotas, files, disk, tasks, ocr_results, api_usage,
          jobs, cancel_jobs, engines, tokens, vin, vout, resp>>

NoTask == [status |-> "none"]
NoFile == [status |-> "none"]

\* the row of a deleted File or OCRTask: its id is not given out again
DeletedRow == [status |-> "deleted"]

Exists(row) == row.status \notin {"none", "deleted"}

RECURSIVE SumSeq(_)
SumSeq(s) == IF s = <<>> THEN 0 ELSE Head(s) + SumSeq(Tail(s))

RECURSIVE Pow2(_)
Pow2(n) == IF n = 0 THEN 1 ELSE 2 * Pow2(n - 1)

Response(op, caller, target, code) ==
    [op |-> op, caller |-> caller, target |-> target, code |-> code]

\* a step of the platform (broker, clock) that answers nobody
Internal == Response("internal", 0, 0, 0)

(***************************************************************************)
(* utils/security.py                                                       *)
(***************************************************************************)

\* check_admin_permission is imported by api/admin.py but defined nowhere
\* in the sources; it is the administrator test of the specification.
check_admin_permission(u) == users[u].is_admin

\* The part of get_current_user that looks at the account: the request of
\* a deactivated account is answered 403 before the handler runs.
ActiveCaller(u) == users[u].is_active

(***************************************************************************)
(* services/ocr_service.py                                                 *)
(***************************************************************************)

\* OCR_ENGINE_PRIORITY is a dict; iterating it yields its keys.
OCR_ENGINE_PRIORITY_iter == <<"free", "premium", "auto">>

\* _select_engine: the preference when it is live, else the first live
\* entry of the iteration over OCR_ENGINE_PRIORITY, else "" (ValueError).
_select_engine(preference) ==
    IF preference # "none" /\ preference \in engines
    THEN preference
    ELSE LET live == SelectSeq(OCR_ENGINE_PRIORITY_iter,
                               LAMBDA e : e \in engines)
         IN IF live # <<>> THEN Head(live) ELSE ""

\* per-page cost in units of 0.001
OCR_ENGINE_COSTS(e) ==
    CASE e = "baidu_ocr" -> 4
      [] e = "baidu_ocr_accurate" -> 8
      [] e = "tencent_ocr" -> 6
      [] e = "aliyun_ocr" -> 10
      [] e = "azure_ocr" -> 10
      [] OTHER -> 0

\* What a successful engine call can return for one page: text and
\* confidence (in percent).
EngineOutputs == {[text |-> "", confidence |-> 0],
                  [text |-> "txt", confidence |-> 60]}

\* check_user_quota is called by api/ocr.py but OCRService does not define
\* it; modelled from the specification: n more pages fit both ceilings.
check_user_quota(u, n) ==
    /\ quotas[u].daily.quota_used + n <= quotas[u].daily.quota_limit
    /\ quotas[u].monthly.quota_used + n <= quotas[u].monthly.quota_limit


(***************************************************************************)
(* Celery: the process_ocr_task job of a task.                             *)
(*   phase     none | queued | running | retry_wait | ended                *)
(*   state     what AsyncResult(task_id).state reads from the result       *)
(*             backend                                                     *)
(*   retries   self.request.retries                                        *)
(*   pc, i, confs   position of the running worker, pages handled so far   *)
(*             and the confidences in all_results                          *)
(*   revoked   control.revoke(id, terminate=True) was requested            *)
(*   pref      the engine_preference argument                              *)
(*   countdown the countdown of the last self.retry() call, in seconds     *)
(*   outcome   "status" of the dict the last run returned ("retry" when it *)
(*             left through self.retry(), "" before the first run ends)    *)
(***************************************************************************)
NoJob == [phase |-> "none", state |-> "PENDING", retries |-> 0,
          pc |-> "idle", i |-> 0, confs |-> <<>>, revoked |-> FALSE,
          pref |-> "none", countdown |-> 0, outcome |-> ""]

\* self.retry(countdown=60 * (2 ** self.request.retries))
RetryCountdown(retries) == default_retry_delay * Pow2(retries)

\* "if self.request.retries < self.max_retries"
RetryAllowed(retries) == retries < max_retries

\* The job after the except block of process_ocr_task: the Retry raised by
\* self.retry() reschedules it, otherwise it returns {"status": "failed"}.
JobAfterException(j) ==
    IF RetryAllowed(j.retries)
    THEN [j EXCEPT !.phase = "retry_wait", !.state = "RETRY",
                   !.retries = @ + 1, !.pc = "idle",
                   !.countdown = RetryCountdown(j.retries),
                   !.outcome = "retry"]
    ELSE [j EXCEPT !.phase = "ended", !.state = "SUCCESS", !.pc = "idle",
                   !.outcome = "failed"]

\* The task row after the except block: marked failed when it still exists.
TaskAfterException(row, msg) ==
    IF Exists(row)
    THEN [row EXCEPT !.status = "failed", !.error_message = msg,
                     !.completed_at = now]
    ELSE row

OutcomeAfterException(j) == IF RetryAllowed(j.retries) THEN "retry" ELSE "failed"

\* The uncaught-exception path of process_ocr_task (ocr_tasks.py 99-120).
WorkerException(t, msg) ==
    /\ tasks' = [tasks EXCEPT ![t] = TaskAfterException(@, msg)]
    /\ jobs' = [jobs EXCEPT ![t] = JobAfterException(@)]
    /\ resp' = Response("process_ocr_task", 0, t,
                        OutcomeAfterException(jobs[t]))

\* the job returns normally: Celery stores SUCCESS with the returned dict
JobReturned(j, status) ==
    [j EXCEPT !.phase = "ended", !.state = "SUCCESS", !.pc = "idle",
              !.outcome = status]

\* a pending check that stops finished tasks only
NotPending_finished(status) == status = "completed"

\* "if task.status != 'pending'" of process_ocr_task
NotPending(status) == status # "pending"

(***************************************************************************)
(* tasks/ocr_tasks.py: process_ocr_task, one action per committed step     *)
(***************************************************************************)

\* Delivery of the job and the head of process_ocr_task up to the first
\* progress report (lines 22-52).
WorkerStart(t) ==
    /\ jobs[t].phase = "queued"
    /\ UNCHANGED <<now, users, quotas, files, disk, ocr_results, api_usage,
                   cancel_jobs, engines, tokens, vin, vout>>
    /\ IF jobs[t].revoked
       THEN \* a revoked job is discarded by the worker that receives it
            /\ jobs' = [jobs EXCEPT ![t] = [@ EXCEPT !.phase = "ended",
                                                     !.state = "REVOKED"]]
            /\ resp' = Response("process_ocr_task", 0, t, "revoked")
            /\ UNCHANGED tasks
       ELSE IF ~Exists(tasks[t]) \/ NotPending(tasks[t].status)
       THEN /\ jobs' = [jobs EXCEPT ![t] = JobReturned(@, "error")]
            /\ resp' = Response("process_ocr_task", 0, t, "error")
            /\ UNCHANGED tasks
       ELSE IF ~Exists(files[tasks[t].file_id])
       THEN \* status was committed as processing, then ValueError
            /\ tasks' = [tasks EXCEPT ![t] = TaskAfterException(
                            [@ EXCEPT !.status = "processing",
                                      !.started_at = now,
                                      !.celery_task_id = TRUE],
                            "file missing")]
            /\ jobs' = [jobs EXCEPT ![t] = JobAfterException(@)]
            /\ resp' = Response("process_ocr_task", 0, t,
                                OutcomeAfterException(jobs[t]))
       ELSE /\ tasks' = [tasks EXCEPT ![t] = [@ EXCEPT
                            !.status = "processing",
                            !.started_at = now,
                            !.celery_task_id = TRUE]]
            /\ jobs' = [jobs EXCEPT ![t] = [@ EXCEPT
                            !.phase = "running", !.state = "PROGRESS",
                            !.pc = "extract", !.i = 0, !.confs = <<>>]]
            /\ resp' = Response("process_ocr_task", 0, t, "progress")

\* _process_file_ocr lines 126-140: image extraction, total_pages.
WorkerExtract(t) ==
    /\ jobs[t].phase = "running" /\ jobs[t].pc = "extract"
    /\ UNCHANGED <<now, users, quotas, files, disk, ocr_results, api_usage,
                   cancel_jobs, engines, tokens, vin, vout>>
    /\ \/ \* extraction raises (unreadable document)
          WorkerException(t, "extract failed")
       \/ /\ tasks' = [tasks EXCEPT ![t] = [@ EXCEPT
                          !.total_pages = files[tasks[t].file_id].pages]]
          /\ jobs' = [jobs EXCEPT ![t] = [@ EXCEPT !.pc = "select"]]
          /\ resp' = Response("process_ocr_task", 0, t, "progress")

\* _process_file_ocr lines 142-158: engine selection, engine_used.
WorkerSelect(t) ==
    /\ jobs[t].phase = "running" /\ jobs[t].pc = "select"
    /\ UNCHANGED <<now, users, quotas, files, disk, ocr_results, api_usage,
                   cancel_jobs, engines, tokens, vin, vout>>
    /\ IF _select_engine(jobs[t].pref) = ""
       THEN WorkerException(t, "no engine")
       ELSE /\ tasks' = [tasks EXCEPT ![t] = [@ EXCEPT
                            !.engine_used = _select_engine(jobs[t].pref)]]
            /\ jobs' = [jobs EXCEPT ![t] = [@ EXCEPT !.pc = "page"]]
            /\ resp' = Response("process_ocr_task", 0, t, "progress")

\* the OCRResult row of a page whose engine call returned r
PageResultRow(t, page, r) ==
    [task_id |-> t, page_number |-> page, text_content |-> r.text,
     confidence_score |-> r.confidence, error_message |-> ""]

\* the OCRResult row of a page whose engine call raised
PageFailureRow(t, page) ==
    [task_id |-> t, page_number |-> page, text_content |-> "",
     confidence_score |-> 0, error_message |-> "page failed"]

\* a page loop whose except branch only logs and continues
PageFailureRows_dropped(t, page) == <<>>

\* rows added by the except branch of the page loop (lines 200-214)
PageFailureRows(t, page) == <<PageFailureRow(t, page)>>

\* One iteration of the page loop (lines 163-214).
WorkerPage(t) ==
    /\ jobs[t].phase = "running" /\ jobs[t].pc = "page"
    /\ jobs[t].i < tasks[t].total_pages
    /\ UNCHANGED <<now, users, quotas, files, disk, api_usage,
                   cancel_jobs, engines, tokens, vin, vout>>
    /\ resp' = Response("process_ocr_task", 0, t, "progress")
    /\ \/ \E r \in EngineOutputs :
             /\ ocr_results' = Append(ocr_results,
                                      PageResultRow(t, jobs[t].i + 1, r))
             /\ jobs' = [jobs EXCEPT ![t] = [@ EXCEPT
                            !.i = @ + 1,
                            !.confs = Append(@, r.confidence)]]
             /\ tasks' = [tasks EXCEPT ![t] = [@ EXCEPT
                            !.processed_pages = Len(jobs[t].confs) + 1]]
       \/ /\ ocr_results' = ocr_results \o PageFailureRows(t, jobs[t].i + 1)
          /\ jobs' = [jobs EXCEPT ![t] = [@ EXCEPT !.i = @ + 1]]
          /\ UNCHANGED tasks

\* a score that is the sum of the confidences
AvgConfidence_sum(confs) == SumSeq(confs)

\* sum(r['confidence'] for r in all_results) / len(all_results), or 0.0
AvgConfidence(confs) ==
    IF confs # <<>> THEN SumSeq(confs) \div Len(confs) ELSE 0

\* the status written after the page loop (line 223)
StatusAfterPages == "completed"

\* Lines 216-233: status completed, completed_at, confidence_score.
WorkerFinalize(t) ==
    /\ jobs[t].phase = "running" /\ jobs[t].pc = "page"
    /\ jobs[t].i >= tasks[t].total_pages
    /\ UNCHANGED <<now, users, quotas, files, disk, ocr_results, api_usage,
                   cancel_jobs, engines, tokens, vin, vout>>
    /\ tasks' = [tasks EXCEPT ![t] = [@ EXCEPT
                    !.status = StatusAfterPages,
                    !.completed_at = now,
                    !.confidence_score = AvgConfidence(jobs[t].confs)]]
    /\ jobs' = [jobs EXCEPT ![t] = [@ EXCEPT !.pc = "usage"]]
    /\ resp' = Response("process_ocr_task", 0, t, "progress")

\* _record_api_usage (ocr_service.py 594-611)
UsageRow(u, engine, pages) ==
    [user_id |-> u, engine |-> engine, pages_processed |-> pages,
     cost |-> OCR_ENGINE_COSTS(engine) * pages, created_at |-> now]

\* Lines 235-236: the APIUsage row of the execution.
WorkerUsage(t) ==
    /\ jobs[t].phase = "running" /\ jobs[t].pc = "usage"
    /\ UNCHANGED <<now, users, quotas, files, disk, ocr_results, tasks,
                   cancel_jobs, engines, tokens, vin, vout>>
    /\ api_usage' = Append(api_usage,
                           UsageRow(tasks[t].user_id, tasks[t].engine_used,
                                    tasks[t].total_pages))
    /\ jobs' = [jobs EXCEPT ![t] = [@ EXCEPT !.pc = "file"]]
    /\ resp' = Response("process_ocr_task", 0, t, "progress")

\* Lines 238-250 and the tail of process_ocr_task: the File is marked
\* completed and the job returns {"status": "completed"}.
WorkerReturn(t) ==
    /\ jobs[t].phase = "running" /\ jobs[t].pc = "file"
    /\ UNCHANGED <<now, users, quotas, disk, ocr_results, api_usage, tasks,
                   cancel_jobs, engines, tokens, vin, vout>>
    /\ files' = [files EXCEPT ![tasks[t].file_id] = [@ EXCEPT
                    !.status = "completed", !.processed_at = now]]
    /\ jobs' = [jobs EXCEPT ![t] = JobReturned(@, "completed")]
    /\ resp' = Response("process_ocr_task", 0, t, "completed")

\* The countdown of self.retry() elapses and the job is queued again.
RetryDeliver(t) ==
    /\ jobs[t].phase = "retry_wait"
    /\ jobs' = [jobs EXCEPT ![t] = [@ EXCEPT !.phase = "queued"]]
    /\ resp' = Internal
    /\ UNCHANGED <<now, users, quotas, files, disk, tasks, ocr_results,
                   api_usage, cancel_jobs, engines, tokens, vin, vout>>

\* control.revoke(id, terminate=True) reaches the worker running the job.
Terminate(t) ==
    /\ jobs[t].phase = "running" /\ jobs[t].revoked
    /\ jobs' = [jobs EXCEPT ![t] = [@ EXCEPT !.phase = "ended",
                                             !.state = "REVOKED",
                                             !.pc = "idle"]]
    /\ resp' = Internal
    /\ UNCHANGED <<now, users, quotas, files, disk, tasks, ocr_results,
                   api_usage, cancel_jobs, engines, tokens, vin, vout>>

\* task_time_limit=600 (celery_app.py 35): the worker process of a job that
\* runs too long is killed and the job is recorded as FAILURE.
HardTimeLimit(t) ==
    /\ jobs[t].phase = "running"
    /\ jobs' = [jobs EXCEPT ![t] = [@ EXCEPT !.phase = "ended",
                                             !.state = "FAILURE",
                                             !.pc = "idle"]]
    /\ resp' = Internal
    /\ UNCHANGED <<now, users, quotas, files, disk, tasks, ocr_results,
                   api_usage, cancel_jobs, engines, tokens, vin, vout>>

\* result_expires=3600 (celery_app.py 42): the stored state of a job that
\* is not running is dropped, after which AsyncResult reads PENDING.
ResultExpire(t) ==
    /\ jobs[t].phase \in {"retry_wait", "ended"}
    /\ jobs[t].state # "PENDING"
    /\ jobs' = [jobs EXCEPT ![t] = [@ EXCEPT !.state = "PENDING"]]
    /\ resp' = Internal
    /\ UNCHANGED <<now, users, quotas, files, disk, tasks, ocr_results,
                   api_usage, cancel_jobs, engines, tokens, vin, vout>>


(***************************************************************************)
(* api/ocr.py                                                              *)
(***************************************************************************)

\* FileService.get_file_by_id(db, file_id, user_id): the row, or none when
\* it does not exist or belongs to somebody else.
get_file_by_id(f, u) ==
    IF Exists(files[f]) /\ files[f].user_id = u THEN files[f] ELSE NoFile

\* db.query(OCRTask).filter(task_id == .., user_id == current_user.id)
get_user_task(t, u) ==
    IF Exists(tasks[t]) /\ tasks[t].user_id = u THEN tasks[t] ELSE NoTask

\* the primary key the store gives the next OCRTask row
\* the autoincrement id of the next OCRTask row, among the ids Ids
FirstFree(Ids) == CHOOSE t \in Ids :
                    /\ tasks[t] = NoTask
                    /\ \A s \in Ids : s < t => tasks[s] # NoTask

NextTaskId == CHOOSE t \in TaskIds :
                 /\ tasks[t] = NoTask
                 /\ \A s \in TaskIds : s < t => tasks[s] # NoTask

NewTask(u, f) ==
    [status |-> "pending", user_id |-> u, file_id |-> f,
     started_at |-> NoneT, completed_at |-> NoneT, created_at |-> now,
     celery_task_id |-> FALSE, total_pages |-> 0, processed_pages |-> 0,
     engine_used |-> "", error_message |-> "", confidence_score |-> 0]

\* Every HTTPException raised inside the try block of process_file_ocr is
\* caught by its "except Exception" clause and answered as 500.
SubmitErrorCode(code) == 500

\* POST /ocr/process (process_file_ocr, lines 112-210).
ProcessFileOcrIn(Ids, u, f, e) ==
    /\ ActiveCaller(u)
    /\ UNCHANGED <<now, users, quotas, files, disk, ocr_results, api_usage,
                   cancel_jobs, engines, tokens, vin, vout>>
    /\ IF ~Exists(get_file_by_id(f, u))
       THEN /\ resp' = Response("process_file_ocr", u, f, SubmitErrorCode(404))
            /\ UNCHANGED <<tasks, jobs>>
       ELSE IF files[f].status # "uploaded"
       THEN /\ resp' = Response("process_file_ocr", u, f, SubmitErrorCode(400))
            /\ UNCHANGED <<tasks, jobs>>
       ELSE IF ~check_user_quota(u, 1)
       THEN /\ resp' = Response("process_file_ocr", u, f, SubmitErrorCode(429))
            /\ UNCHANGED <<tasks, jobs>>
       ELSE /\ \E t \in Ids : tasks[t] = NoTask
            /\ jobs' = [jobs EXCEPT ![FirstFree(Ids)] =
                            [NoJob EXCEPT !.phase = "queued", !.pref = e]]
            /\ tasks' = [tasks EXCEPT ![FirstFree(Ids)] = NewTask(u, f)]
            /\ resp' = Response("process_file_ocr", u, f, 200)

\* the endpoint with the task table bounded by MaxTasks rows
ProcessFileOcr(u, f, e) == ProcessFileOcrIn(TaskIds, u, f, e)

\* The status get_task_status writes for a Celery state (lines 397-411);
\* any other state leaves the column alone.
StatusForCeleryState(state, status) ==
    CASE state = "PENDING" -> "pending"
      [] state = "STARTED" -> "processing"
      [] state = "SUCCESS" -> "completed"
      [] state = "FAILURE" -> "failed"
      [] OTHER -> status

\* GET /ocr/tasks/{task_id} (get_task_status, lines 375-419).
GetTaskStatus(u, t) ==
    /\ ActiveCaller(u)
    /\ UNCHANGED <<now, users, quotas, files, disk, ocr_results, api_usage,
                   jobs, cancel_jobs, engines, tokens, vin, vout>>
    /\ IF ~Exists(get_user_task(t, u))
       THEN /\ resp' = Response("get_task_status", u, t, 404)
            /\ UNCHANGED tasks
       ELSE LET st == jobs[t].state
                row == tasks[t]
            IN /\ tasks' = [tasks EXCEPT ![t] = [row EXCEPT
                      !.status = StatusForCeleryState(st, row.status),
                      !.started_at =
                          IF st = "STARTED" /\ row.started_at = NoneT
                          THEN now ELSE @,
                      !.completed_at =
                          IF st \in {"SUCCESS", "FAILURE"}
                             /\ row.completed_at = NoneT
                          THEN now ELSE @,
                      !.error_message =
                          IF st = "FAILURE" THEN "celery failure" ELSE @]]
               /\ resp' = Response("get_task_status", u, t, 200)

\* a cancel_task that lets a cancelled task through
CancelRejected_lax(status) == status \in {"completed", "failed"}

\* "if task.status in ['completed', 'failed', 'cancelled']" of cancel_task
CancelRejected(status) == status \in {"completed", "failed", "cancelled"}

\* DELETE /ocr/tasks/{task_id} (cancel_task, lines 484-530).
CancelTask(u, t) ==
    /\ ActiveCaller(u)
    /\ UNCHANGED <<now, users, quotas, files, disk, ocr_results, api_usage,
                   jobs, engines, tokens, vin, vout>>
    /\ IF ~Exists(get_user_task(t, u))
       THEN /\ resp' = Response("cancel_task", u, t, 404)
            /\ UNCHANGED <<tasks, cancel_jobs>>
       ELSE IF CancelRejected(tasks[t].status)
       THEN /\ resp' = Response("cancel_task", u, t, 400)
            /\ UNCHANGED <<tasks, cancel_jobs>>
       ELSE /\ cancel_jobs' = cancel_jobs \cup {t}
            /\ tasks' = [tasks EXCEPT ![t] = [@ EXCEPT
                            !.status = "cancelled", !.completed_at = now]]
            /\ resp' = Response("cancel_task", u, t, 200)

\* "if task.status in [...]" of the cancel_ocr_task job
CancelJobRejected(status) == status \in {"completed", "failed", "cancelled"}

\* tasks/ocr_tasks.py: the cancel_ocr_task job (lines 317-339).
CancelOcrTask(t) ==
    /\ t \in cancel_jobs
    /\ cancel_jobs' = cancel_jobs \ {t}
    /\ UNCHANGED <<now, users, quotas, files, disk, ocr_results, api_usage,
                   engines, tokens, vin, vout>>
    /\ IF ~Exists(tasks[t]) \/ CancelJobRejected(tasks[t].status)
       THEN /\ resp' = Response("cancel_ocr_task", 0, t, "error")
            /\ UNCHANGED <<tasks, jobs>>
       ELSE /\ jobs' = [jobs EXCEPT ![t] = [@ EXCEPT
                            !.revoked = @ \/ tasks[t].celery_task_id]]
            /\ tasks' = [tasks EXCEPT ![t] = [@ EXCEPT
                            !.status = "cancelled", !.completed_at = now]]
            /\ resp' = Response("cancel_ocr_task", 0, t, "cancelled")

(***************************************************************************)
(* tasks/cleanup_tasks.py                                                  *)
(***************************************************************************)

\* the filter of cleanup_stuck_tasks (lines 290-293)
\* every processing task, whenever it started
IsStuck_any(row, hours) ==
    /\ Exists(row)
    /\ row.status = "processing"

IsStuck(row, hours) ==
    /\ Exists(row)
    /\ row.status = "processing"
    /\ row.started_at < now - hours

\* cleanup_stuck_tasks(hours) (lines 280-335).  The update is committed,
\* then log_system_event(event=...) raises TypeError and the job returns
\* {"status": "error"}.
CleanupStuckTasks(hours) ==
    /\ tasks' = [t \in TaskIds |->
                    IF IsStuck(tasks[t], hours)
                    THEN [tasks[t] EXCEPT !.status = "failed",
                                          !.error_message = "timeout reset",
                                          !.completed_at = now]
                    ELSE tasks[t]]
    /\ jobs' = [t \in TaskIds |->
                    IF IsStuck(tasks[t], hours) /\ tasks[t].celery_task_id
                    THEN [jobs[t] EXCEPT !.revoked = TRUE]
                    ELSE jobs[t]]
    /\ resp' = Response("cleanup_stuck_tasks", 0, hours, "error")
    /\ UNCHANGED <<now, users, quotas, files, disk, ocr_results, api_usage,
                   cancel_jobs, engines, tokens, vin, vout>>

(***************************************************************************)
(* api/admin.py                                                            *)
(***************************************************************************)

\* the tasks of u that are pending only
InProgressOf_pending(row, u) ==
    /\ Exists(row)
    /\ row.user_id = u
    /\ row.status = "pending"

\* delete_user lines 410-413: the tasks of u that are pending or processing
InProgressOf(row, u) ==
    /\ Exists(row)
    /\ row.user_id = u
    /\ row.status \in {"pending", "processing"}

\* DELETE /admin/users/{user_id} (delete_user, lines 384-453).
AdminDeleteUser(a, u) ==
    /\ ActiveCaller(a)
    /\ UNCHANGED <<now, quotas, files, disk, ocr_results, api_usage, jobs,
                   cancel_jobs, engines, tokens, vin, vout>>
    /\ IF ~check_admin_permission(a)
       THEN /\ resp' = Response("delete_user", a, u, 403)
            /\ UNCHANGED <<users, tasks>>
       ELSE IF users[u].is_admin
       THEN /\ resp' = Response("delete_user", a, u, 400)
            /\ UNCHANGED <<users, tasks>>
       ELSE /\ users' = [users EXCEPT ![u] = [@ EXCEPT !.is_active = FALSE]]
            /\ tasks' = [t \in TaskIds |->
                            IF InProgressOf(tasks[t], u)
                            THEN [tasks[t] EXCEPT !.status = "cancelled",
                                                  !.completed_at = now]
                            ELSE tasks[t]]
            /\ resp' = Response("delete_user", a, u, 200)

\* the clock advances
Tick ==
    /\ now + TickStep <= MaxTime
    /\ now' = now + TickStep
    /\ resp' = Internal
    /\ UNCHANGED <<users, quotas, files, disk, tasks, ocr_results, api_usage,
                   jobs, cancel_jobs, engines, tokens, vin, vout>>

(***************************************************************************)
(* SpecOCR: the OCR pipeline.  Time is counted in hours.                   *)
(***************************************************************************)
QuotaRows(plan) ==
    [daily |-> [quota_limit |-> IF plan = "free" THEN free_user_daily_quota
                                ELSE premium_user_daily_quota,
                quota_used |-> 0],
     monthly |-> [quota_limit |-> IF plan = "free"
                                  THEN free_user_daily_quota * 30
                                  ELSE premium_user_daily_quota * 30,
                  quota_used |-> 0]]

UserRow(name, admin) ==
    [username |-> name, is_admin |-> admin, is_active |-> TRUE,
     plan_type |-> IF admin THEN "enterprise" ELSE "free"]

InitUsers == [u \in UserIds |->
                 CASE u = 1 -> UserRow("alice", FALSE)
                   [] u = 2 -> UserRow("bob", FALSE)
                   [] OTHER -> UserRow("admin", TRUE)]

FileRow(u, hash, size, type, pages) ==
    [status |-> "uploaded", user_id |-> u, file_hash |-> hash,
     file_size |-> size, file_type |-> type, pages |-> pages,
     upload_time |-> now, processed_at |-> NoneT]

\* engine names a request can ask for ("none" is no preference)
EnginePrefs == {"none", "tesseract"}

InitOCR ==
    /\ now = 0
    /\ users = InitUsers
    /\ quotas = [u \in UserIds |-> QuotaRows(InitUsers[u].plan_type)]
    /\ \E n \in 1..MaxPages :
          files = [f \in FileIds |->
                      [status |-> "uploaded", user_id |-> f,
                       file_hash |-> IF f = 1 THEN "d1" ELSE "d2",
                       file_size |-> 5,
                       file_type |-> "pdf", pages |-> n,
                       upload_time |-> 0, processed_at |-> NoneT]]
    /\ disk = FileIds
    /\ tasks = [t \in TaskIds |-> NoTask]
    /\ ocr_results = <<>>
    /\ api_usage = <<>>
    /\ jobs = [t \in TaskIds |-> NoJob]
    /\ cancel_jobs = {}
    /\ engines = {"tesseract"}
    /\ tokens = {}
    /\ vin = <<>>
    /\ vout = <<>>
    /\ resp = Response("init", 0, 0, 0)

NextOCR ==
    \/ \E u \in {1}, f \in FileIds, e \in EnginePrefs : ProcessFileOcr(u, f, e)
    \/ \E t \in TaskIds : WorkerStart(t)
    \/ \E t \in TaskIds : WorkerExtract(t)
    \/ \E t \in TaskIds : WorkerSelect(t)
    \/ \E t \in TaskIds : WorkerPage(t)
    \/ \E t \in TaskIds : WorkerFinalize(t)
    \/ \E t \in TaskIds : WorkerUsage(t)
    \/ \E t \in TaskIds : WorkerReturn(t)
    \/ \E t \in TaskIds : RetryDeliver(t)
    \/ \E t \in TaskIds : Terminate(t)
    \/ \E t \in TaskIds : HardTimeLimit(t)
    \/ \E t \in TaskIds : ResultExpire(t)
    \/ \E u \in {1, 2}, t \in TaskIds : GetTaskStatus(u, t)
    \/ \E u \in {1, 2}, t \in TaskIds : CancelTask(u, t)
    \/ \E t \in TaskIds : CancelOcrTask(t)
    \/ CleanupStuckTasks(stuck_hours)
    \/ \E a \in {3}, u \in {1, 3} : AdminDeleteUser(a, u)
    \/ Tick

SpecOCR == InitOCR /\ [][NextOCR]_vars

(***************************************************************************)
(* services/file_service.py: validate_file                                 *)
(*                                                                         *)
(* A filename is a sequence of characters.  An upload's content is a       *)
(* record: head, its first min(4, size) bytes; size, len(file_content);    *)
(* body, a tag standing for the bytes that follow.                         *)
(***************************************************************************)
Min(a, b) == IF a <= b THEN a ELSE b

\* str.lower() on the characters of the model's filenames
Lower(ch) ==
    CASE ch = "P" -> "p"
      [] ch = "D" -> "d"
      [] ch = "F" -> "f"
      [] OTHER -> ch

\* str.rfind, 1-based: the last position of ch in s, 0 when there is none
LastIndexOf(s, ch) ==
    LET I == {i \in 1..Len(s) : s[i] = ch}
    IN IF I = {} THEN 0 ELSE CHOOSE i \in I : \A j \in I : j <= i

\* PurePath.name: what follows the last "/"
PathName(s) == SubSeq(s, LastIndexOf(s, "/") + 1, Len(s))

\* PurePath.suffix: the name from its last "." on, unless that "." is the
\* first or the last character of the name
PathSuffix(s) ==
    LET name == PathName(s)
        i == LastIndexOf(name, ".")
    IN IF 1 < i /\ i < Len(name) THEN SubSeq(name, i, Len(name)) ELSE <<>>

\* ext = Path(filename).suffix.lower()
FileExt(filename) ==
    LET suffix == PathSuffix(filename)
    IN [i \in 1..Len(suffix) |-> Lower(suffix[i])]

ExtPdf == <<".", "p", "d", "f">>
ExtPng == <<".", "p", "n", "g">>
ExtJpg == <<".", "j", "p", "g">>
ExtJpeg == <<".", "j", "p", "e", "g">>
ExtTiff == <<".", "t", "i", "f", "f">>
ExtBmp == <<".", "b", "m", "p">>
ExtWebp == <<".", "w", "e", "b", "p">>

\* settings.allowed_extensions
allowed_extensions == {ExtPdf, ExtPng, ExtJpg, ExtJpeg, ExtTiff, ExtBmp}

\* the magic_numbers table of _validate_file_content, as byte values
magic_numbers(ext) ==
    CASE ext = ExtPdf -> {<<37, 80, 68, 70>>}
      [] ext = ExtPng -> {<<137, 80, 78, 71>>}
      [] ext = ExtJpg -> {<<255, 216, 255>>}
      [] ext = ExtJpeg -> {<<255, 216, 255>>}
      [] ext = ExtTiff -> {<<73, 73, 42, 0>>, <<77, 77, 0, 42>>}
      [] ext = ExtBmp -> {<<66, 77>>}
      [] ext = ExtWebp -> {<<82, 73, 70, 70>>}
      [] OTHER -> {}

\* bytes.startswith
StartsWith(content, magic) ==
    /\ Len(magic) <= Len(content.head)
    /\ SubSeq(content.head, 1, Len(magic)) = magic

\* a content check without the length test
_validate_file_content_nolen(content, ext) ==
    IF magic_numbers(ext) = {}
    THEN TRUE
    ELSE \E magic \in magic_numbers(ext) : StartsWith(content, magic)

\* FileService._validate_file_content
_validate_file_content(content, ext) ==
    IF content.size < 4
    THEN FALSE
    ELSE IF magic_numbers(ext) = {}
    THEN TRUE
    ELSE \E magic \in magic_numbers(ext) : StartsWith(content, magic)

Invalid(code) == [valid |-> FALSE, code |-> code]

\* FileService.validate_file
validate_file(filename, content) ==
    IF FileExt(filename) \notin allowed_extensions
    THEN Invalid("UNSUPPORTED_FILE_TYPE")
    ELSE IF content.size > max_file_size
    THEN Invalid("FILE_TOO_LARGE")
    ELSE IF ~_validate_file_content(content, FileExt(filename))
    THEN Invalid("INVALID_FILE_CONTENT")
    ELSE [valid |-> TRUE, code |-> ""]

\* vout before validate_file has returned
NotValidated == [valid |-> FALSE, code |-> "not called"]

\* the call validate_file(vin[1], vin[2])
ValidateFile ==
    /\ vout = NotValidated
    /\ vout' = validate_file(vin[1], vin[2])
    /\ resp' = Response("validate_file", 0, 0, validate_file(vin[1], vin[2]).code)
    /\ UNCHANGED <<now, users, quotas, files, disk, tasks, ocr_results,
                   api_usage, jobs, cancel_jobs, engines, tokens, vin>>

(***************************************************************************)
(* SpecValidate: validate_file applied to each sample input                *)
(***************************************************************************)
FileNameSamples ==
    { <<"d", "o", "c", ".", "p", "d", "f">>,
      <<"D", "O", "C", ".", "P", "D", "F">>,
      <<"a", ".", "p", "n", "g">>,
      <<"a", ".", "j", "p", "g">>,
      <<"a", ".", "j", "p", "e", "g">>,
      <<"a", ".", "t", "i", "f", "f">>,
      <<"a", ".", "b", "m", "p">>,
      <<"a", ".", "w", "e", "b", "p">>,
      <<"a", ".", "e", "x", "e">>,
      <<"a", ".", "p", "n", "g", ".", "p", "d", "f">>,
      <<"p", "d", "f">>,
      <<".", "p", "d", "f">>,
      <<"a", ".", "p", "d", "f", ".">>,
      <<"a", ".", "p", "d", "f", "/", "b">> }

HeadSamples ==
    { <<37, 80, 68, 70>>,
      <<137, 80, 78, 71>>,
      <<255, 216, 255, 224>>,
      <<73, 73, 42, 0>>,
      <<77, 77, 0, 42>>,
      <<66, 77, 0, 0>>,
      <<82, 73, 70, 70>>,
      <<37, 80, 68, 0>>,
      <<0, 0, 0, 0>> }

SizeSamples == {0, 2, 3, 4, 5, max_file_size, max_file_size + 1}

ContentSamples ==
    { [head |-> SubSeq(h, 1, Min(4, n)), size |-> n, body |-> "x"] :
          h \in HeadSamples, n \in SizeSamples }

InitValidate ==
    /\ now = 0
    /\ users = InitUsers
    /\ quotas = [u \in UserIds |-> QuotaRows(InitUsers[u].plan_type)]
    /\ files = [f \in FileIds |-> NoFile]
    /\ disk = {}
    /\ tasks = [t \in TaskIds |-> NoTask]
    /\ ocr_results = <<>>
    /\ api_usage = <<>>
    /\ jobs = [t \in TaskIds |-> NoJob]
    /\ cancel_jobs = {}
    /\ engines = {"tesseract"}
    /\ tokens = {}
    /\ vin \in FileNameSamples \X ContentSamples
    /\ vout = NotValidated
    /\ resp = Response("init", 0, 0, 0)

NextValidate == ValidateFile

SpecValidate == InitValidate /\ [][NextValidate]_vars

(***************************************************************************)
(* services/file_service.py and api/files.py                               *)
(***************************************************************************)

\* calculate_file_hash: hashlib.md5(content).hexdigest(), the digest of
\* the bytes
calculate_file_hash(content) ==
    CASE content.body = "A" -> "d1"
      [] content.body = "B" -> "d2"
      [] OTHER -> "d3"

\* FileService._get_file_type
_get_file_type(filename) ==
    IF FileExt(filename) = ExtPdf
    THEN "pdf"
    ELSE IF FileExt(filename) \in {ExtPng, ExtJpg, ExtJpeg, ExtTiff, ExtBmp, ExtWebp}
    THEN "image"
    ELSE "unknown"

\* the smallest element of a non-empty set of ids, 0 for the empty set
FirstOf(S) == IF S = {} THEN 0 ELSE CHOOSE f \in S : \A g \in S : f <= g

\* a duplicate lookup that ignores the owner
existing_file_any_user(u, hash) ==
    FirstOf({f \in FileIds : Exists(files[f]) /\ files[f].file_hash = hash})

\* save_uploaded_file lines 137-141: the File of this user with this hash,
\* 0 for None
existing_file(u, hash) ==
    FirstOf({f \in FileIds : /\ Exists(files[f])
                             /\ files[f].user_id = u
                             /\ files[f].file_hash = hash})

\* the primary key the store gives the next File row, 0 when the model's
\* table is full
NextFileId == FirstOf({f \in FileIds : files[f] = NoFile})

\* FileService.save_uploaded_file (lines 113-195), called by POST
\* /files/upload.
SaveUploadedFile(u, filename, content) ==
    /\ ActiveCaller(u)
    /\ vin' = <<filename, content>>
    /\ vout' = validate_file(filename, content)
    /\ UNCHANGED <<now, users, quotas, tasks, ocr_results, api_usage, jobs,
                   cancel_jobs, engines, tokens>>
    /\ IF ~validate_file(filename, content).valid
       THEN /\ resp' = Response("save_uploaded_file", u, 0, "ValueError")
            /\ UNCHANGED <<files, disk>>
       ELSE IF existing_file(u, calculate_file_hash(content)) # 0
       THEN /\ resp' = Response("save_uploaded_file", u,
                          existing_file(u, calculate_file_hash(content)), "ok")
            /\ UNCHANGED <<files, disk>>
       ELSE /\ NextFileId # 0
            /\ disk' = disk \cup {NextFileId}
            /\ files' = [files EXCEPT ![NextFileId] =
                            FileRow(u, calculate_file_hash(content),
                                    content.size, _get_file_type(filename), 1)]
            /\ resp' = Response("save_uploaded_file", u, NextFileId, "ok")

\* GET /files/{file_id} (get_file_info)
GetFileInfo(u, f) ==
    /\ ActiveCaller(u)
    /\ resp' = Response("get_file_info", u, f,
                        IF Exists(get_file_by_id(f, u)) THEN 200 ELSE 404)
    /\ UNCHANGED <<now, users, quotas, files, disk, tasks, ocr_results,
                   api_usage, jobs, cancel_jobs, engines, tokens, vin, vout>>

\* GET /files/{file_id}/download (download_file)
DownloadFile(u, f) ==
    /\ ActiveCaller(u)
    /\ resp' = Response("download_file", u, f,
                        IF Exists(get_file_by_id(f, u)) /\ f \in disk
                        THEN 200 ELSE 404)
    /\ UNCHANGED <<now, users, quotas, files, disk, tasks, ocr_results,
                   api_usage, jobs, cancel_jobs, engines, tokens, vin, vout>>

\* GET /files/ (get_user_files): the ids of the rows listed
ListFiles(u) ==
    /\ ActiveCaller(u)
    /\ resp' = Response("get_user_files", u,
                        {f \in FileIds : Exists(files[f]) /\ files[f].user_id = u},
                        200)
    /\ UNCHANGED <<now, users, quotas, files, disk, tasks, ocr_results,
                   api_usage, jobs, cancel_jobs, engines, tokens, vin, vout>>

\* db.delete(file_record) with the cascade of File.ocr_tasks and
\* OCRTask.results (models.py 49, 78)
TasksOfFiles(F) ==
    {t \in DOMAIN tasks : Exists(tasks[t]) /\ tasks[t].file_id \in F}

FilesAfterDelete(F) ==
    [f \in FileIds |-> IF f \in F THEN DeletedRow ELSE files[f]]

TasksAfterDelete(F) ==
    [t \in DOMAIN tasks |->
        IF t \in TasksOfFiles(F) THEN DeletedRow ELSE tasks[t]]

ResultsAfterDelete(F) ==
    SelectSeq(ocr_results, LAMBDA r : r.task_id \notin TasksOfFiles(F))

\* the files of a request that FileService.delete_file deletes for user u;
\* for the others it raises ValueError
Deletable(u, F) ==
    {f \in F : Exists(files[f]) /\ files[f].user_id = u}

\* DELETE /files/{file_id} (delete_file, with FileService.delete_file):
\* the ValueError of a missing row is answered 400
DeleteFile(u, f) ==
    /\ ActiveCaller(u)
    /\ UNCHANGED <<now, users, quotas, api_usage, jobs, cancel_jobs, engines,
                   tokens, vin, vout>>
    /\ IF Deletable(u, {f}) = {}
       THEN /\ resp' = Response("delete_file", u, f, 400)
            /\ UNCHANGED <<files, disk, tasks, ocr_results>>
       ELSE /\ disk' = disk \ {f}
            /\ files' = FilesAfterDelete({f})
            /\ tasks' = TasksAfterDelete({f})
            /\ ocr_results' = ResultsAfterDelete({f})
            /\ resp' = Response("delete_file", u, f, 200)

\* Routes are tried in the order of their definition: DELETE
\* "/{file_id}" (api/files.py 248) stands before DELETE "/batch" (278) and
\* matches the path "/batch".
BatchRouteShadowed == TRUE

\* DELETE /files/batch.  The request reaches delete_file with file_id =
\* "batch", which is no integer, and is answered 422.  The handler
\* delete_multiple_files (278-320) would call FileService.delete_file for
\* each id, collect the failures and list the deleted ids.
DeleteMultipleFiles(u, F) ==
    /\ ActiveCaller(u)
    /\ UNCHANGED <<now, users, quotas, api_usage, jobs, cancel_jobs, engines,
                   tokens, vin, vout>>
    /\ IF BatchRouteShadowed
       THEN /\ resp' = Response("delete_multiple_files", u, {}, 422)
            /\ UNCHANGED <<files, disk, tasks, ocr_results>>
       ELSE /\ disk' = disk \ Deletable(u, F)
            /\ files' = FilesAfterDelete(Deletable(u, F))
            /\ tasks' = TasksAfterDelete(Deletable(u, F))
            /\ ocr_results' = ResultsAfterDelete(Deletable(u, F))
            /\ resp' = Response("delete_multiple_files", u,
                                Deletable(u, F), 200)

\* FileService.update_file_status (lines 294-315)
UpdateFileStatus(f, status) ==
    /\ UNCHANGED <<now, users, quotas, disk, tasks, ocr_results, api_usage,
                   jobs, cancel_jobs, engines, tokens, vin, vout>>
    /\ IF ~Exists(files[f])
       THEN /\ resp' = Response("update_file_status", 0, f, FALSE)
            /\ UNCHANGED files
       ELSE /\ files' = [files EXCEPT ![f] = [@ EXCEPT
                            !.status = status,
                            !.processed_at =
                                IF status = "completed" THEN now ELSE @]]
            /\ resp' = Response("update_file_status", 0, f, TRUE)

\* GET /ocr/results/{task_id} (get_ocr_result, lines 447-481)
GetOcrResult(u, t) ==
    /\ ActiveCaller(u)
    /\ resp' = Response("get_ocr_result", u, t,
                  IF ~Exists(get_user_task(t, u))
                  THEN 404
                  ELSE IF \E k \in 1..Len(ocr_results) : ocr_results[k].task_id = t
                  THEN 200
                  ELSE IF tasks[t].status = "completed" THEN 404 ELSE 400)
    /\ UNCHANGED <<now, users, quotas, files, disk, tasks, ocr_results,
                   api_usage, jobs, cancel_jobs, engines, tokens, vin, vout>>

\* what the engine does with one page of a run: it raises, or it returns
PageOutcomes == {[raised |-> TRUE, text |-> "", confidence |-> 0],
                 [raised |-> FALSE, text |-> "txt", confidence |-> 60]}

\* the OCRResult rows the page loop adds for the outcomes outs[k..]
RECURSIVE PageRows(_, _, _)
PageRows(t, outs, k) ==
    IF k > Len(outs)
    THEN <<>>
    ELSE (IF outs[k].raised
          THEN PageFailureRows(t, k)
          ELSE <<PageResultRow(t, k, outs[k])>>) \o PageRows(t, outs, k + 1)

\* all_results of the page loop: the confidences of the pages that returned
Confidences(outs) ==
    LET ok == SelectSeq(outs, LAMBDA o : ~o.raised)
    IN [k \in 1..Len(ok) |-> ok[k].confidence]

\* process_ocr_task (tasks/ocr_tasks.py 19-120 with _process_file_ocr) from
\* its delivery to its return, with no other step in between.
RunOcrTask(t) ==
    /\ jobs[t].phase = "queued"
    /\ UNCHANGED <<now, users, quotas, disk, cancel_jobs, engines, tokens,
                   vin, vout>>
    /\ IF jobs[t].revoked
       THEN /\ jobs' = [jobs EXCEPT ![t] = [@ EXCEPT !.phase = "ended",
                                                     !.state = "REVOKED"]]
            /\ resp' = Response("process_ocr_task", 0, t, "revoked")
            /\ UNCHANGED <<tasks, files, ocr_results, api_usage>>
       ELSE IF ~Exists(tasks[t]) \/ NotPending(tasks[t].status)
       THEN /\ jobs' = [jobs EXCEPT ![t] = JobReturned(@, "error")]
            /\ resp' = Response("process_ocr_task", 0, t, "error")
            /\ UNCHANGED <<tasks, files, ocr_results, api_usage>>
       ELSE \/ \* image extraction or engine selection raises
               /\ tasks' = [tasks EXCEPT ![t] = TaskAfterException(
                               [@ EXCEPT !.status = "processing",
                                         !.started_at = now,
                                         !.celery_task_id = TRUE],
                               "run failed")]
               /\ jobs' = [jobs EXCEPT ![t] = JobAfterException(@)]
               /\ resp' = Response("process_ocr_task", 0, t,
                                   OutcomeAfterException(jobs[t]))
               /\ UNCHANGED <<files, ocr_results, api_usage>>
            \/ /\ Exists(files[tasks[t].file_id])
               /\ _select_engine(jobs[t].pref) # ""
               /\ \E outs \in [1..files[tasks[t].file_id].pages -> PageOutcomes] :
                     /\ ocr_results' = ocr_results \o PageRows(t, outs, 1)
                     /\ tasks' = [tasks EXCEPT ![t] = [@ EXCEPT
                            !.status = StatusAfterPages,
                            !.started_at = now,
                            !.completed_at = now,
                            !.celery_task_id = TRUE,
                            !.total_pages = Len(outs),
                            !.processed_pages = Len(Confidences(outs)),
                            !.engine_used = _select_engine(jobs[t].pref),
                            !.confidence_score = AvgConfidence(Confidences(outs))]]
                     /\ api_usage' = Append(api_usage,
                            UsageRow(tasks[t].user_id,
                                     _select_engine(jobs[t].pref), Len(outs)))
               /\ files' = [files EXCEPT ![tasks[t].file_id] = [@ EXCEPT
                               !.status = "completed", !.processed_at = now]]
               /\ jobs' = [jobs EXCEPT ![t] = JobReturned(@, "completed")]
               /\ resp' = Response("process_ocr_task", 0, t, "completed")

(***************************************************************************)
(* Age-based cleanup                                                       *)
(***************************************************************************)

\* the filter of both cleanup_old_files
IsOldFile(row, days) ==
    /\ Exists(row)
    /\ row.upload_time < now - days
    /\ row.status \in {"completed", "failed"}

OldFiles(days) == {f \in FileIds : IsOldFile(files[f], days)}

\* tasks/cleanup_tasks.py cleanup_old_files (lines 16-80).  The rows are
\* committed, then log_system_event(event=...) raises TypeError and the job
\* returns {"status": "error"}.
CleanupOldFiles(days) ==
    /\ disk' = disk \ OldFiles(days)
    /\ files' = FilesAfterDelete(OldFiles(days))
    /\ tasks' = TasksAfterDelete(OldFiles(days))
    /\ ocr_results' = ResultsAfterDelete(OldFiles(days))
    /\ resp' = Response("cleanup_old_files", 0, days, "error")
    /\ UNCHANGED <<now, users, quotas, api_usage, jobs, cancel_jobs, engines,
                   tokens, vin, vout>>

\* services/file_service.py imports datetime but not timedelta
\* ("from datetime import datetime", line 6)
FileServiceImportsTimedelta == FALSE

\* FileService.cleanup_old_files (lines 326-361): computing the cutoff
\* raises NameError, the outer handler rolls back and returns 0.
FileServiceCleanupOldFiles(days) ==
    /\ UNCHANGED <<now, users, quotas, api_usage, jobs, cancel_jobs, engines,
                   tokens, vin, vout>>
    /\ IF ~FileServiceImportsTimedelta
       THEN /\ resp' = Response("FileService.cleanup_old_files", 0, days, 0)
            /\ UNCHANGED <<files, disk, tasks, ocr_results>>
       ELSE /\ disk' = disk \ OldFiles(days)
            /\ files' = FilesAfterDelete(OldFiles(days))
            /\ tasks' = TasksAfterDelete(OldFiles(days))
            /\ ocr_results' = ResultsAfterDelete(OldFiles(days))
            /\ resp' = Response("FileService.cleanup_old_files", 0, days,
                                Cardinality(OldFiles(days)))

\* the clock of SpecFiles (days) and of SpecAuth (minutes)
TickClock ==
    /\ now + ClockStep <= MaxClock
    /\ now' = now + ClockStep
    /\ resp' = Internal
    /\ UNCHANGED <<users, quotas, files, disk, tasks, ocr_results, api_usage,
                   jobs, cancel_jobs, engines, tokens, vin, vout>>

(***************************************************************************)
(* SpecFiles: uploads, file and task endpoints of two users, cleanup.      *)
(* Time is counted in days.                                                *)
(***************************************************************************)
PdfName == <<"d", "o", "c", ".", "p", "d", "f">>

\* two PDF documents and one content that is no PDF
ContentA == [head |-> <<37, 80, 68, 70>>, size |-> 5, body |-> "A"]
ContentB == [head |-> <<37, 80, 68, 70>>, size |-> 5, body |-> "B"]
ContentJ == [head |-> <<0, 0, 0, 0>>, size |-> 5, body |-> "J"]

\* who uploads what: user 1 each content, user 2 the bytes of ContentA
Uploads == {<<1, ContentA>>, <<1, ContentB>>, <<1, ContentJ>>, <<2, ContentA>>}

InitFiles ==
    /\ now = 0
    /\ users = InitUsers
    /\ quotas = [u \in UserIds |-> QuotaRows(InitUsers[u].plan_type)]
    /\ files = [f \in FileIds |-> NoFile]
    /\ disk = {}
    /\ tasks = [t \in TaskIds |-> NoTask]
    /\ ocr_results = <<>>
    /\ api_usage = <<>>
    /\ jobs = [t \in TaskIds |-> NoJob]
    /\ cancel_jobs = {}
    /\ engines = {"tesseract"}
    /\ tokens = {}
    /\ vin = <<>>
    /\ vout = NotValidated
    /\ resp = Response("init", 0, 0, 0)

NextFiles ==
    \/ \E up \in Uploads : SaveUploadedFile(up[1], PdfName, up[2])
    \/ \E u \in {1}, f \in FileIds : GetFileInfo(u, f)
    \/ \E u \in {1}, f \in FileIds : DownloadFile(u, f)
    \/ \E u \in {1} : ListFiles(u)
    \/ \E u \in {1}, f \in FileIds : DeleteFile(u, f)
    \/ \E u \in {1}, F \in (SUBSET FileIds) \ {{}} : DeleteMultipleFiles(u, F)
    \/ \E f \in FileIds, s \in {"failed"} : UpdateFileStatus(f, s)
    \/ \E u \in {1, 2}, f \in FileIds : ProcessFileOcr(u, f, "tesseract")
    \/ \E t \in TaskIds : RunOcrTask(t)
    \/ \E u \in {1}, t \in TaskIds : GetTaskStatus(u, t)
    \/ \E u \in {1}, t \in TaskIds : GetOcrResult(u, t)
    \/ \E u \in {1}, t \in TaskIds : CancelTask(u, t)
    \/ CleanupOldFiles(cleanup_days)
    \/ FileServiceCleanupOldFiles(cleanup_days)
    \/ TickClock

SpecFiles == InitFiles /\ [][NextFiles]_vars

(***************************************************************************)
(* utils/security.py: bearer tokens.  A credential is what a request       *)
(* presents: nothing, a string that is no JWT, or a JWT with its sub and   *)
(* exp claims, signed with settings.secret_key or not.                     *)
(***************************************************************************)
NoCredentials == [kind |-> "missing", signed |-> FALSE, sub |-> "", exp |-> 0]
NotAJwt == [kind |-> "malformed", signed |-> FALSE, sub |-> "", exp |-> 0]

Jwt(signed, sub, exp) ==
    [kind |-> "jwt", signed |-> signed, sub |-> sub, exp |-> exp]

\* create_access_token(data={"sub": username, ...}, expires_delta)
create_access_token(sub, expires_delta) == Jwt(TRUE, sub, now + expires_delta)

\* verify_token: jwt.decode checks the signature and the exp claim (a token
\* is expired once exp < now); a payload without sub is rejected.  TRUE
\* stands for the payload, FALSE for None.
verify_token(cred) ==
    /\ cred.kind = "jwt"
    /\ cred.signed
    /\ ~(cred.exp < now)
    /\ cred.sub # ""

\* db.query(User).filter(User.username == username)
UsersNamed(username) == {u \in UserIds : users[u].username = username}

\* get_current_user (lines 75-114): the status it answers, 200 when it
\* returns the user
get_current_user(cred) ==
    IF ~verify_token(cred)
    THEN 401
    ELSE IF UsersNamed(cred.sub) = {}
    THEN 401
    ELSE IF \A u \in UsersNamed(cred.sub) : ~users[u].is_active
    THEN 403
    ELSE 200

\* credentials that authenticate_user did not issue: none, a string that
\* is no JWT, a JWT signed with another key, and JWTs signed with the
\* service's key that carry no sub or the name of no user
ForeignCredentials ==
    {NoCredentials, NotAJwt, Jwt(FALSE, "alice", MaxClock + 1),
     Jwt(TRUE, "", MaxClock + 1), Jwt(TRUE, "ghost", MaxClock + 1)}

\* every token authenticate_user can issue within the clock's range
IssuableTokens ==
    {Jwt(TRUE, name, t + access_token_expire_minutes) :
        name \in {"alice", "bob", "admin"}, t \in 0..MaxClock}

\* security = HTTPBearer(): a request without an Authorization header is
\* answered by the dependency itself, before get_current_user runs, with
\* the status of the installed FastAPI: 403 "Not authenticated" in the
\* releases before 0.122, 401 since.
HTTPBearerNotAuthenticated == {401, 403}

\* Depends(get_current_user) of a request that presents cred: a token
\* issued earlier, or a credential of somebody else's making
AuthRequest(cred) ==
    /\ cred \in tokens \cup ForeignCredentials
    /\ \E code \in (IF cred.kind = "missing"
                    THEN HTTPBearerNotAuthenticated
                    ELSE {get_current_user(cred)}) :
          resp' = Response("get_current_user", 0, cred, code)
    /\ UNCHANGED <<now, users, quotas, files, disk, tasks, ocr_results,
                   api_usage, jobs, cancel_jobs, engines, tokens, vin, vout>>

(***************************************************************************)
(* services/auth_service.py, api/auth.py, api/users.py, api/admin.py       *)
(***************************************************************************)

\* AuthService.authenticate_user (lines 107-181) with the right password
AuthenticateUser(u) ==
    /\ UNCHANGED <<now, users, quotas, files, disk, tasks, ocr_results,
                   api_usage, jobs, cancel_jobs, engines, vin, vout>>
    /\ IF ~users[u].is_active
       THEN /\ resp' = Response("authenticate_user", u, u, "ValueError")
            /\ UNCHANGED tokens
       ELSE /\ Cardinality(tokens \cup {create_access_token(
                   users[u].username, access_token_expire_minutes)}) <= MaxTokens
            /\ tokens' = tokens \cup {create_access_token(
                   users[u].username, access_token_expire_minutes)}
            /\ resp' = Response("authenticate_user", u, u, "ok")

\* POST /users/deactivate (deactivate_account, api/users.py 414-440):
\* auth_service.deactivate_user(...) is a coroutine function and the call
\* is not awaited, so its body never runs; the handler answers 200.
DeactivateAccount(u) ==
    /\ ActiveCaller(u)
    /\ resp' = Response("deactivate_account", u, u, 200)
    /\ UNCHANGED <<now, users, quotas, files, disk, tasks, ocr_results,
                   api_usage, jobs, cancel_jobs, engines, tokens, vin, vout>>

\* DELETE /auth/account (delete_account, api/auth.py 461-513): every path
\* reaches log_security_event(event=...), a TypeError, and the request is
\* answered 500 with nothing changed.
DeleteAccount(u) ==
    /\ ActiveCaller(u)
    /\ resp' = Response("delete_account", u, u, 500)
    /\ UNCHANGED <<now, users, quotas, files, disk, tasks, ocr_results,
                   api_usage, jobs, cancel_jobs, engines, tokens, vin, vout>>

\* an optional boolean of UserManagementRequest: "none", "true" or "false"
Updated(old, field) == IF field = "none" THEN old ELSE field = "true"

\* PUT /admin/users/{user_id} (update_user, lines 296-381).  With a plan in
\* the request, reading user.plan raises AttributeError (the column is
\* plan_type) and the request is rolled back and answered 500.
AdminUpdateUser(a, u, plan, is_active, is_admin) ==
    /\ ActiveCaller(a)
    /\ UNCHANGED <<now, quotas, files, disk, tasks, ocr_results, api_usage,
                   jobs, cancel_jobs, engines, tokens, vin, vout>>
    /\ IF ~check_admin_permission(a)
       THEN /\ resp' = Response("update_user", a, u, 403)
            /\ UNCHANGED users
       ELSE IF plan # "none"
       THEN /\ resp' = Response("update_user", a, u, 500)
            /\ UNCHANGED users
       ELSE /\ users' = [users EXCEPT ![u] = [@ EXCEPT
                            !.is_active = Updated(@, is_active),
                            !.is_admin = Updated(@, is_admin)]]
            /\ resp' = Response("update_user", a, u, 200)

(***************************************************************************)
(* SpecAuth: tokens and accounts.  Time is counted in minutes.             *)
(***************************************************************************)

\* valid_plans of upgrade_user_plan
valid_plans == {"free", "basic", "premium", "enterprise"}

\* plan_levels.get(plan, 0) of upgrade_user_plan
plan_levels(plan) ==
    CASE plan = "basic" -> 1
      [] plan = "premium" -> 2
      [] plan = "enterprise" -> 3
      [] OTHER -> 0

\* models.User has the column plan_type and no attribute "plan"
UserHasPlanAttribute == FALSE

\* POST /users/upgrade-plan (upgrade_user_plan, api/users.py 343-411).
\* After the check of the plan name the handler reads current_user.plan
\* (line 358), outside its try block: AttributeError, answered 500.  With
\* the attribute it would reject a lower or equal plan with 400 and answer
\* 200 otherwise, having called auth_service.update_user_plan(...) without
\* await, so that plan and quota rows stay as they are.
UpgradeUserPlan(u, new_plan) ==
    /\ ActiveCaller(u)
    /\ resp' = Response("upgrade_user_plan", u, new_plan,
                  IF new_plan \notin valid_plans
                  THEN 400
                  ELSE IF ~UserHasPlanAttribute
                  THEN 500
                  ELSE IF plan_levels(new_plan) < plan_levels(users[u].plan_type)
                  THEN 400
                  ELSE IF users[u].plan_type = new_plan
                  THEN 400
                  ELSE 200)
    /\ UNCHANGED <<now, users, quotas, files, disk, tasks, ocr_results,
                   api_usage, jobs, cancel_jobs, engines, tokens, vin, vout>>

\* plan names a request can carry
PlanNames == valid_plans \cup {"gold"}

\* bodies of PUT /admin/users/{id}: plan, is_active, is_admin
UpdateRequests ==
    {<<"premium", "none", "none">>, <<"none", "true", "none">>,
     <<"none", "false", "none">>, <<"none", "none", "true">>,
     <<"none", "none", "false">>}

InitAuth ==
    /\ now = 0
    /\ users = InitUsers
    /\ quotas = [u \in UserIds |-> QuotaRows(InitUsers[u].plan_type)]
    /\ files = [f \in FileIds |-> NoFile]
    /\ disk = {}
    /\ tasks = [t \in TaskIds |-> NoTask]
    /\ ocr_results = <<>>
    /\ api_usage = <<>>
    /\ jobs = [t \in TaskIds |-> NoJob]
    /\ cancel_jobs = {}
    /\ engines = {"tesseract"}
    /\ tokens = {}
    /\ vin = <<>>
    /\ vout = NotValidated
    /\ resp = Response("init", 0, 0, 0)

NextAuth ==
    \/ \E u \in UserIds : AuthenticateUser(u)
    \/ \E cred \in IssuableTokens \cup ForeignCredentials : AuthRequest(cred)
    \/ \E u \in UserIds : DeactivateAccount(u)
    \/ \E u \in UserIds : DeleteAccount(u)
    \/ \E a \in UserIds, u \in UserIds : AdminDeleteUser(a, u)
    \/ \E a \in UserIds, u \in UserIds, r \in UpdateRequests :
          AdminUpdateUser(a, u, r[1], r[2], r[3])
    \/ \E u \in UserIds, p \in PlanNames : UpgradeUserPlan(u, p)
    \/ TickClock

SpecAuth == InitAuth /\ [][NextAuth]_vars

(***************************************************************************)
(* SpecBootstrap: init_admin.py, the administrator bootstrap utility, run  *)
(* against stores with and without a user named admin.                     *)
(***************************************************************************)

\* a password, as validate_password_strength looks at it: its length and
\* the character classes that occur in it
Password(len, upper, lower, digit, special) ==
    [len |-> len, upper |-> upper, lower |-> lower, digit |-> digit,
     special |-> special]

\* password="123456" of init_admin_user (line 52)
DefaultAdminPassword == Password(6, FALSE, FALSE, TRUE, FALSE)

\* utils/security.py validate_password_strength (lines 153-163)
validate_password_strength(password) ==
    LET classes == {c \in {"upper", "lower", "digit", "special"} :
                       password[c]}
    IN IF password.len < 8 THEN FALSE ELSE Cardinality(classes) >= 3

\* the lengths of the user names of the model; all of them consist of
\* letters only
UsernameLength(name) ==
    CASE name = "bob" -> 3
      [] OTHER -> 5

\* AuthService.validate_username (lines 29-33): 3 to 50 letters, digits or
\* underscores
validate_username(name) == UsernameLength(name) \in 3..50

\* the users with this name (username is a unique column)
UsersWithName(name) == {u \in DOMAIN users : users[u].username = name}

\* the outcome of AuthService.register_user (lines 35-106) up to its
\* db.add: the address admin@ocr-system.com is well formed and belongs to
\* no other user of the model
register_user_outcome(username, password) ==
    IF ~validate_username(username) THEN "ValueError"
    ELSE IF ~validate_password_strength(password) THEN "ValueError"
    ELSE IF UsersWithName(username) # {} THEN "ValueError"
    ELSE "ok"

\* the id of the next users row
NextUserId == 1 + Cardinality(DOMAIN users)

\* register_user lines 62-75: the new users row
users_after_register(username, plan_type, is_admin) ==
    [u \in DOMAIN users \cup {NextUserId} |->
        IF u = NextUserId
        THEN [username |-> username, is_admin |-> is_admin,
              is_active |-> TRUE, plan_type |-> plan_type]
        ELSE users[u]]

\* _create_user_quota (lines 303-332): the daily and the monthly row
quotas_after_register(plan_type) ==
    [u \in DOMAIN quotas \cup {NextUserId} |->
        IF u = NextUserId THEN QuotaRows(plan_type) ELSE quotas[u]]

\* an existing user named admin that the utility leaves as it is
existing_admin_kept(row) == row

\* init_admin_user lines 40-43: an existing user named admin becomes an
\* administrator
existing_admin(row) == [row EXCEPT !.is_admin = TRUE]

\* One run of init_admin.py (main, lines 94-125, with init_admin_user,
\* lines 23-75).  The response carries what the run did and the exit
\* status of the process.
InitAdminUser ==
    /\ UNCHANGED <<now, files, disk, tasks, ocr_results, api_usage, jobs,
                   cancel_jobs, engines, tokens, vin, vout>>
    /\ IF UsersWithName("admin") # {}
       THEN LET u == FirstOf(UsersWithName("admin"))
            IN /\ users' = [users EXCEPT ![u] = existing_admin(@)]
               /\ UNCHANGED quotas
               /\ resp' = Response("init_admin_user", 0,
                               IF users[u].is_admin THEN "exists"
                               ELSE "promoted", 0)
       ELSE IF register_user_outcome("admin", DefaultAdminPassword) = "ok"
       THEN /\ users' = users_after_register("admin", "enterprise", TRUE)
            /\ quotas' = quotas_after_register("enterprise")
            /\ resp' = Response("init_admin_user", 0, "created", 0)
       ELSE /\ UNCHANGED <<users, quotas>>
            /\ resp' = Response("init_admin_user", 0, "ValueError", 1)

\* the users tables the utility is run against: the third account is
\* named admin or carol, and any of the accounts may be an administrator
BootstrapStores ==
    {[u \in UserIds |->
         UserRow(IF u = 3 THEN name ELSE InitUsers[u].username, adm[u])] :
       name \in {"admin", "carol"}, adm \in [UserIds -> BOOLEAN]}

InitBootstrap ==
    /\ now = 0
    /\ users \in BootstrapStores
    /\ quotas = [u \in UserIds |-> QuotaRows(users[u].plan_type)]
    /\ files = [f \in FileIds |-> NoFile]
    /\ disk = {}
    /\ tasks = [t \in TaskIds |-> NoTask]
    /\ ocr_results = <<>>
    /\ api_usage = <<>>
    /\ jobs = [t \in TaskIds |-> NoJob]
    /\ cancel_jobs = {}
    /\ engines = {"tesseract"}
    /\ tokens = {}
    /\ vin = <<>>
    /\ vout = NotValidated
    /\ resp = Response("init", 0, 0, 0)

NextBootstrap ==
    \/ InitAdminUser
    \/ \E a \in UserIds, u \in UserIds : AdminDeleteUser(a, u)
    \/ \E a \in UserIds, u \in UserIds, r \in UpdateRequests :
          AdminUpdateUser(a, u, r[1], r[2], r[3])

SpecBootstrap == InitBootstrap /\ [][NextBootstrap]_vars

(***************************************************************************)
(* SpecQuota: OCR submission against the quota rows, under deployments     *)
(* with different values of FREE_USER_DAILY_QUOTA.                         *)
(***************************************************************************)

\* values of the setting free_user_daily_quota (config.py line 107, read
\* from the environment): none, one, and the default
DailyQuotaSettings == {0, 1, free_user_daily_quota}

\* the first day of the month of day d; the clock of SpecQuota counts days
\* from the first day of a month of MonthLength days
MonthStart(d) == d - (d % MonthLength)

\* _create_user_quota (auth_service.py 303-332) for a daily limit;
\* reset_time is the next midnight (daily row) and the first day of the
\* month plus 32 days (monthly row)
user_quota_rows(daily_limit) ==
    [daily |-> [quota_limit |-> daily_limit, quota_used |-> 0,
                reset_time |-> now + 1],
     monthly |-> [quota_limit |-> daily_limit * 30, quota_used |-> 0,
                  reset_time |-> MonthStart(now) + 32]]

\* POST /ocr/process/batch (process_batch_ocr, api/ocr.py 212-307).  Its
\* first statement reads settings.max_batch_ocr, which config.Settings does
\* not define: AttributeError before the try block, answered 500.
ProcessBatchOcr(u, F) ==
    /\ ActiveCaller(u)
    /\ resp' = Response("process_batch_ocr", u, F, 500)
    /\ UNCHANGED <<now, users, quotas, files, disk, tasks, ocr_results,
                   api_usage, jobs, cancel_jobs, engines, tokens, vin, vout>>

\* GET /users/quota (get_user_quota, api/users.py 150-182).  The handler
\* takes the first UserQuota row of the caller and reads daily_limit,
\* daily_used, monthly_limit and monthly_used from it; the row has
\* quota_type, quota_limit and quota_used (models.py 134-147):
\* AttributeError inside the try block, answered 500.
GetUserQuota(u) ==
    /\ ActiveCaller(u)
    /\ resp' = Response("get_user_quota", u, u, 500)
    /\ UNCHANGED <<now, users, quotas, files, disk, tasks, ocr_results,
                   api_usage, jobs, cancel_jobs, engines, tokens, vin, vout>>

\* PUT /admin/users/{user_id} (update_user, api/admin.py 296-381) with
\* daily_limit or monthly_limit in the request and nothing else: the
\* handler reads quota.daily_limit or quota.monthly_limit of the user's
\* first UserQuota row (lines 338, 343): AttributeError, rollback, 500.
AdminUpdateUserLimits(a, u, daily_limit, monthly_limit) ==
    /\ ActiveCaller(a)
    /\ daily_limit # NoneT \/ monthly_limit # NoneT
    /\ resp' = Response("update_user", a, u,
                        IF ~check_admin_permission(a) THEN 403 ELSE 500)
    /\ UNCHANGED <<now, users, quotas, files, disk, tasks, ocr_results,
                   api_usage, jobs, cancel_jobs, engines, tokens, vin, vout>>

\* the periodic job update_user_quotas (tasks/stats_tasks.py 465-499): for
\* the first UserQuota row it reads quota.last_reset_date, which the row
\* does not have: AttributeError, rollback, status error.
UpdateUserQuotas ==
    /\ resp' = Response("update_user_quotas", 0, 0, "error")
    /\ UNCHANGED <<now, users, quotas, files, disk, tasks, ocr_results,
                   api_usage, jobs, cancel_jobs, engines, tokens, vin, vout>>

\* limits an administrator sends
LimitRequests == {<<0, NoneT>>, <<NoneT, 0>>, <<1, 30>>}

InitQuota ==
    /\ now = 0
    /\ users = InitUsers
    /\ \E d \in DailyQuotaSettings :
          quotas = [u \in UserIds |->
                       IF InitUsers[u].plan_type = "free"
                       THEN user_quota_rows(d)
                       ELSE user_quota_rows(premium_user_daily_quota)]
    /\ \E n \in 1..MaxPages :
          files = [f \in FileIds |->
                      [status |-> "uploaded", user_id |-> f,
                       file_hash |-> IF f = 1 THEN "d1" ELSE "d2",
                       file_size |-> 5,
                       file_type |-> "pdf", pages |-> n,
                       upload_time |-> 0, processed_at |-> NoneT]]
    /\ disk = FileIds
    /\ tasks = [t \in TaskIds |-> NoTask]
    /\ ocr_results = <<>>
    /\ api_usage = <<>>
    /\ jobs = [t \in TaskIds |-> NoJob]
    /\ cancel_jobs = {}
    /\ engines = {"tesseract"}
    /\ tokens = {}
    /\ vin = <<>>
    /\ vout = NotValidated
    /\ resp = Response("init", 0, 0, 0)

NextQuota ==
    \/ \E u \in UserIds, f \in FileIds : ProcessFileOcr(u, f, "tesseract")
    \/ \E u \in UserIds, F \in SUBSET FileIds : ProcessBatchOcr(u, F)
    \/ \E t \in TaskIds : RunOcrTask(t)
    \/ \E u \in UserIds : GetUserQuota(u)
    \/ \E a \in UserIds, u \in UserIds, r \in LimitRequests :
          AdminUpdateUserLimits(a, u, r[1], r[2])
    \/ UpdateUserQuotas
    \/ TickClock

SpecQuota == InitQuota /\ [][NextQuota]_vars

(***************************************************************************)
(* SpecDelivery: the message of one process_ocr_task job delivered more    *)
(* than once.  task_acks_late=True (celery_app.py 38) acknowledges the     *)
(* message when the run returns; until then the broker hands it out again  *)
(* when the worker's connection is lost, the visibility timeout passes or  *)
(* the worker dies.  jobs is indexed by delivery; every delivery runs      *)
(* process_ocr_task for the same task.                                     *)
(***************************************************************************)
Deliveries == 1..MaxDeliveries

\* the OCRTask the message names
delivered_task == FirstOf({t \in TaskIds : tasks[t] # NoTask})

\* process_ocr_task lines 27-36: the task is read and its status checked
DeliveryRead(d) ==
    /\ jobs[d].phase = "queued"
    /\ UNCHANGED <<now, users, quotas, files, disk, tasks, ocr_results,
                   api_usage, cancel_jobs, engines, tokens, vin, vout>>
    /\ IF \/ ~Exists(tasks[delivered_task])
          \/ NotPending(tasks[delivered_task].status)
       THEN /\ jobs' = [jobs EXCEPT ![d] = JobReturned(@, "error")]
            /\ resp' = Response("process_ocr_task", d, delivered_task,
                                "error")
       ELSE /\ jobs' = [jobs EXCEPT ![d] = [@ EXCEPT !.phase = "running",
                                                     !.pc = "read"]]
            /\ resp' = Response("process_ocr_task", d, delivered_task,
                                "progress")

\* lines 38-41, the commit of status processing, and the steps up to the
\* page loop (file lookup, image extraction, engine selection), which
\* either raise or set total_pages
DeliveryCommit(d) ==
    /\ jobs[d].phase = "running" /\ jobs[d].pc = "read"
    /\ UNCHANGED <<now, users, quotas, files, disk, ocr_results, api_usage,
                   cancel_jobs, engines, tokens, vin, vout>>
    /\ LET t == delivered_task
           started == [tasks[t] EXCEPT !.status = "processing",
                                       !.started_at = now,
                                       !.celery_task_id = TRUE]
       IN \/ /\ tasks' = [tasks EXCEPT ![t] =
                              TaskAfterException(started, "run failed")]
             /\ jobs' = [jobs EXCEPT ![d] = JobAfterException(@)]
             /\ resp' = Response("process_ocr_task", d, t,
                                 OutcomeAfterException(jobs[d]))
          \/ /\ Exists(files[tasks[t].file_id])
             /\ _select_engine(jobs[d].pref) # ""
             /\ tasks' = [tasks EXCEPT ![t] = [started EXCEPT
                             !.total_pages = files[tasks[t].file_id].pages,
                             !.engine_used = _select_engine(jobs[d].pref)]]
             /\ jobs' = [jobs EXCEPT ![d] = [@ EXCEPT
                             !.state = "PROGRESS", !.pc = "page",
                             !.i = 0, !.confs = <<>>]]
             /\ resp' = Response("process_ocr_task", d, t, "progress")

\* one iteration of the page loop (lines 163-214) of delivery d
DeliveryPage(d) ==
    /\ jobs[d].phase = "running" /\ jobs[d].pc = "page"
    /\ jobs[d].i < files[tasks[delivered_task].file_id].pages
    /\ UNCHANGED <<now, users, quotas, files, disk, api_usage,
                   cancel_jobs, engines, tokens, vin, vout>>
    /\ resp' = Response("process_ocr_task", d, delivered_task, "progress")
    /\ LET t == delivered_task
       IN \/ \E r \in EngineOutputs :
               /\ ocr_results' = Append(ocr_results,
                                        PageResultRow(t, jobs[d].i + 1, r))
               /\ jobs' = [jobs EXCEPT ![d] = [@ EXCEPT
                               !.i = @ + 1,
                               !.confs = Append(@, r.confidence)]]
               /\ tasks' = [tasks EXCEPT ![t] = [@ EXCEPT
                               !.processed_pages = Len(jobs[d].confs) + 1]]
          \/ /\ ocr_results' = ocr_results \o PageFailureRows(t, jobs[d].i + 1)
             /\ jobs' = [jobs EXCEPT ![d] = [@ EXCEPT !.i = @ + 1]]
             /\ UNCHANGED tasks

\* lines 216-250 and the return of process_ocr_task: status completed,
\* confidence_score, the APIUsage row, the File; the message is
\* acknowledged
DeliveryFinish(d) ==
    /\ jobs[d].phase = "running" /\ jobs[d].pc = "page"
    /\ jobs[d].i >= files[tasks[delivered_task].file_id].pages
    /\ UNCHANGED <<now, users, quotas, disk, ocr_results, cancel_jobs,
                   engines, tokens, vin, vout>>
    /\ LET t == delivered_task
       IN /\ tasks' = [tasks EXCEPT ![t] = [@ EXCEPT
                          !.status = StatusAfterPages,
                          !.completed_at = now,
                          !.confidence_score = AvgConfidence(jobs[d].confs)]]
          /\ api_usage' = Append(api_usage,
                                 UsageRow(tasks[t].user_id,
                                          tasks[t].engine_used, jobs[d].i))
          /\ files' = [files EXCEPT ![tasks[t].file_id] = [@ EXCEPT
                          !.status = "completed", !.processed_at = now]]
          /\ jobs' = [jobs EXCEPT ![d] = JobReturned(@, "completed")]
          /\ resp' = Response("process_ocr_task", d, t, "completed")

\* the worker process of a run dies; its message stays unacknowledged
WorkerLost(d) ==
    /\ jobs[d].phase = "running"
    /\ jobs' = [jobs EXCEPT ![d] = [@ EXCEPT !.phase = "lost",
                                             !.pc = "idle"]]
    /\ resp' = Internal
    /\ UNCHANGED <<now, users, quotas, files, disk, tasks, ocr_results,
                   api_usage, cancel_jobs, engines, tokens, vin, vout>>

\* the broker hands the unacknowledged message of run d to a worker again,
\* as delivery e
Redeliver(d, e) ==
    /\ jobs[d].phase \in {"running", "lost"}
    /\ jobs[e].phase = "none"
    /\ \A x \in Deliveries : x < e => jobs[x].phase # "none"
    /\ jobs' = [jobs EXCEPT ![e] = [jobs[d] EXCEPT !.phase = "queued",
                                                   !.pc = "idle",
                                                   !.i = 0,
                                                   !.confs = <<>>]]
    /\ resp' = Internal
    /\ UNCHANGED <<now, users, quotas, files, disk, tasks, ocr_results,
                   api_usage, cancel_jobs, engines, tokens, vin, vout>>

\* after POST /ocr/process: a pending task and its message in the queue
InitDelivery ==
    /\ now = 0
    /\ users = InitUsers
    /\ quotas = [u \in UserIds |-> QuotaRows(InitUsers[u].plan_type)]
    /\ \E n \in 1..MaxPages :
          files = [f \in FileIds |->
                      [status |-> "uploaded", user_id |-> f,
                       file_hash |-> IF f = 1 THEN "d1" ELSE "d2",
                       file_size |-> 5,
                       file_type |-> "pdf", pages |-> n,
                       upload_time |-> 0, processed_at |-> NoneT]]
    /\ disk = FileIds
    /\ tasks = [t \in TaskIds |-> IF t = 1 THEN NewTask(1, 1) ELSE NoTask]
    /\ ocr_results = <<>>
    /\ api_usage = <<>>
    /\ jobs = [d \in Deliveries |->
                  IF d = 1 THEN [NoJob EXCEPT !.phase = "queued",
                                              !.pref = "tesseract"]
                  ELSE NoJob]
    /\ cancel_jobs = {}
    /\ engines = {"tesseract"}
    /\ tokens = {}
    /\ vin = <<>>
    /\ vout = NotValidated
    /\ resp = Response("init", 0, 0, 0)

NextDelivery ==
    \/ \E d \in Deliveries : DeliveryRead(d)
    \/ \E d \in Deliveries : DeliveryCommit(d)
    \/ \E d \in Deliveries : DeliveryPage(d)
    \/ \E d \in Deliveries : DeliveryFinish(d)
    \/ \E d \in Deliveries : WorkerLost(d)
    \/ \E d \in Deliveries, e \in Deliveries : Redeliver(d, e)
    \/ \E d \in Deliveries : RetryDeliver(d)

SpecDelivery == InitDelivery /\ [][NextDelivery]_vars

(***************************************************************************)
(* SpecCancel: DELETE /ocr/tasks/{task_id} split at its dispatch of the    *)
(* cancel_ocr_task job, so that the job can run before or after the        *)
(* handler's commit.  vin holds the request the handler is working on      *)
(* (caller, task, and the status and job id of the row it loaded), vout    *)
(* the handler's position.                                                 *)
(***************************************************************************)

\* cancel_task lines 491-511: lookup, the two rejections, and
\* cancel_ocr_task.delay(task_id)
CancelTaskDispatch(u, t) ==
    /\ ActiveCaller(u)
    /\ vout # "dispatched"
    /\ UNCHANGED <<now, users, quotas, files, disk, tasks, ocr_results,
                   api_usage, jobs, engines, tokens>>
    /\ IF ~Exists(get_user_task(t, u))
       THEN /\ resp' = Response("cancel_task", u, t, 404)
            /\ UNCHANGED <<cancel_jobs, vin, vout>>
       ELSE IF CancelRejected(tasks[t].status)
       THEN /\ resp' = Response("cancel_task", u, t, 400)
            /\ UNCHANGED <<cancel_jobs, vin, vout>>
       ELSE /\ cancel_jobs' = cancel_jobs \cup {t}
            /\ vin' = <<u, t, tasks[t].status, tasks[t].celery_task_id>>
            /\ vout' = "dispatched"
            /\ resp' = Response("cancel_task", u, t, "dispatched")

\* cancel_task lines 513-526: status cancelled is written to the row the
\* handler loaded and committed; the request is answered 200
CancelTaskCommit ==
    /\ vout = "dispatched"
    /\ tasks' = [tasks EXCEPT ![vin[2]] = [@ EXCEPT
                    !.status = "cancelled", !.completed_at = now]]
    /\ vout' = "committed"
    /\ resp' = Response("cancel_task", vin[1], vin[2], 200)
    /\ UNCHANGED <<now, users, quotas, files, disk, ocr_results, api_usage,
                   jobs, cancel_jobs, engines, tokens, vin>>

InitCancel ==
    /\ now = 0
    /\ users = InitUsers
    /\ quotas = [u \in UserIds |-> QuotaRows(InitUsers[u].plan_type)]
    /\ \E n \in 1..MaxPages :
          files = [f \in FileIds |->
                      [status |-> "uploaded", user_id |-> f,
                       file_hash |-> IF f = 1 THEN "d1" ELSE "d2",
                       file_size |-> 5,
                       file_type |-> "pdf", pages |-> n,
                       upload_time |-> 0, processed_at |-> NoneT]]
    /\ disk = FileIds
    /\ tasks = [t \in TaskIds |-> NoTask]
    /\ ocr_results = <<>>
    /\ api_usage = <<>>
    /\ jobs = [t \in TaskIds |-> NoJob]
    /\ cancel_jobs = {}
    /\ engines = {"tesseract"}
    /\ tokens = {}
    /\ vin = <<>>
    /\ vout = "idle"
    /\ resp = Response("init", 0, 0, 0)

NextCancel ==
    \/ \E u \in {1}, f \in FileIds : ProcessFileOcr(u, f, "tesseract")
    \/ \E t \in TaskIds : WorkerStart(t)
    \/ \E t \in TaskIds : WorkerExtract(t)
    \/ \E t \in TaskIds : WorkerSelect(t)
    \/ \E t \in TaskIds : WorkerPage(t)
    \/ \E t \in TaskIds : WorkerFinalize(t)
    \/ \E t \in TaskIds : WorkerUsage(t)
    \/ \E t \in TaskIds : WorkerReturn(t)
    \/ \E t \in TaskIds : RetryDeliver(t)
    \/ \E t \in TaskIds : Terminate(t)
    \/ \E u \in {1, 2}, t \in TaskIds : CancelTaskDispatch(u, t)
    \/ CancelTaskCommit
    \/ \E t \in TaskIds : CancelOcrTask(t)

SpecCancel == InitCancel /\ [][NextCancel]_vars

(***************************************************************************)
(* SpecUpload: FileService.save_uploaded_file split at its disk write and  *)
(* its commit, run by concurrent requests (main.py starts four server      *)
(* processes), with failing disk writes, removals and commits, next to     *)
(* delete_file and the cleanup_orphaned_files job.  Disk objects are named *)
(* by their path; vin holds the local state of each upload in progress.    *)
(***************************************************************************)
Uploaders == 1..MaxUploads

NoUpload == [pc |-> "idle", user_id |-> 0, file_hash |-> "", path |-> 0]

\* the step of save_uploaded_file that raised, and the path it had chosen
Raised(step, path) == [raised |-> step, path |-> path]

\* File(...) of save_uploaded_file (lines 155-165)
StoredFile(u, hash, size, type, path) ==
    [status |-> "uploaded", user_id |-> u, file_hash |-> hash,
     file_size |-> size, file_type |-> type, pages |-> 1,
     upload_time |-> now, processed_at |-> NoneT, file_path |-> path]

\* generate_secure_filename (utils/security.py 185-198): a name no other
\* upload, disk object or File row has
secure_filename ==
    CHOOSE p \in 1..(2 * MaxUploads + MaxFiles + 1) :
        /\ p \notin disk
        /\ \A f \in FileIds : Exists(files[f]) => files[f].file_path # p
        /\ \A r \in Uploaders : vin[r].path # p

\* the disk when the except clause has not removed the written file
disk_after_failure_kept(path) == disk

\* save_uploaded_file lines 190-191: the except clause removes the file
\* when it exists
disk_after_failure(path) == disk \ {path}

\* save_uploaded_file lines 121-148: validation, file name, hash and the
\* lookup of an existing File of the user with this hash
UploadCheck(r, u, filename, content) ==
    /\ ActiveCaller(u)
    /\ vin[r].pc = "idle"
    /\ UNCHANGED <<now, users, quotas, files, disk, tasks, ocr_results,
                   api_usage, jobs, cancel_jobs, engines, tokens, vout>>
    /\ IF ~validate_file(filename, content).valid
       THEN /\ resp' = Response("save_uploaded_file", u,
                               Raised("validate", 0), "ValueError")
            /\ UNCHANGED vin
       ELSE IF existing_file(u, calculate_file_hash(content)) # 0
       THEN /\ resp' = Response("save_uploaded_file", u,
                          existing_file(u, calculate_file_hash(content)), "ok")
            /\ UNCHANGED vin
       ELSE /\ vin' = [vin EXCEPT ![r] =
                          [pc |-> "checked", user_id |-> u,
                           file_hash |-> calculate_file_hash(content),
                           path |-> secure_filename]]
            /\ resp' = Response("save_uploaded_file", u, 0, "progress")

\* lines 150-152: the bytes are written, or the write raises and the
\* except clause (186-194) removes what was written
UploadWrite(r) ==
    /\ vin[r].pc = "checked"
    /\ UNCHANGED <<now, users, quotas, files, tasks, ocr_results, api_usage,
                   jobs, cancel_jobs, engines, tokens, vout>>
    /\ \/ /\ disk' = disk \cup {vin[r].path}
          /\ vin' = [vin EXCEPT ![r].pc = "written"]
          /\ resp' = Response("save_uploaded_file", vin[r].user_id, 0,
                              "progress")
       \/ /\ disk' = disk_after_failure(vin[r].path)
          /\ vin' = [vin EXCEPT ![r] = NoUpload]
          /\ resp' = Response("save_uploaded_file", vin[r].user_id,
                              Raised("write", vin[r].path), "ValueError")

\* lines 154-169: the File row is added and committed, or the commit
\* raises, the session is rolled back and the file removed
UploadCommit(r) ==
    /\ vin[r].pc = "written"
    /\ UNCHANGED <<now, users, quotas, tasks, ocr_results, api_usage,
                   jobs, cancel_jobs, engines, tokens, vout>>
    /\ vin' = [vin EXCEPT ![r] = NoUpload]
    /\ \/ /\ NextFileId # 0
          /\ files' = [files EXCEPT ![NextFileId] =
                          StoredFile(vin[r].user_id, vin[r].file_hash, 5,
                                     "pdf", vin[r].path)]
          /\ UNCHANGED disk
          /\ resp' = Response("save_uploaded_file", vin[r].user_id,
                              NextFileId, "ok")
       \/ /\ disk' = disk_after_failure(vin[r].path)
          /\ UNCHANGED files
          /\ resp' = Response("save_uploaded_file", vin[r].user_id,
                              Raised("commit", vin[r].path), "ValueError")

\* FileService.delete_file (lines 253-292): the file is unlinked when it
\* exists, then the row deleted and committed; unlink or commit may raise
DeleteStoredFile(u, f) ==
    /\ ActiveCaller(u)
    /\ UNCHANGED <<now, users, quotas, tasks, ocr_results, api_usage,
                   jobs, cancel_jobs, engines, tokens, vin, vout>>
    /\ IF Deletable(u, {f}) = {}
       THEN /\ resp' = Response("delete_file", u, f, "ValueError")
            /\ UNCHANGED <<files, disk>>
       ELSE \/ /\ files[f].file_path \in disk
               /\ resp' = Response("delete_file", u, f, "ValueError")
               /\ UNCHANGED <<files, disk>>
            \/ /\ disk' = disk \ {files[f].file_path}
               /\ resp' = Response("delete_file", u, f, "ValueError")
               /\ UNCHANGED files
            \/ /\ disk' = disk \ {files[f].file_path}
               /\ files' = FilesAfterDelete({f})
               /\ resp' = Response("delete_file", u, f, "ok")

\* the cleanup_orphaned_files job (tasks/cleanup_tasks.py 225-277): every
\* file under the upload root whose path no File row records is removed;
\* then log_system_event(event=...) raises TypeError and the job returns
\* status error
CleanupOrphanedFiles ==
    /\ disk' = {p \in disk : \E f \in FileIds :
                                /\ Exists(files[f])
                                /\ files[f].file_path = p}
    /\ resp' = Response("cleanup_orphaned_files", 0, disk \ disk', "error")
    /\ UNCHANGED <<now, users, quotas, files, tasks, ocr_results, api_usage,
                   jobs, cancel_jobs, engines, tokens, vin, vout>>

InitUpload ==
    /\ now = 0
    /\ users = InitUsers
    /\ quotas = [u \in UserIds |-> QuotaRows(InitUsers[u].plan_type)]
    /\ files = [f \in FileIds |-> NoFile]
    /\ disk = {}
    /\ tasks = [t \in TaskIds |-> NoTask]
    /\ ocr_results = <<>>
    /\ api_usage = <<>>
    /\ jobs = [t \in TaskIds |-> NoJob]
    /\ cancel_jobs = {}
    /\ engines = {"tesseract"}
    /\ tokens = {}
    /\ vin = [r \in Uploaders |-> NoUpload]
    /\ vout = NotValidated
    /\ resp = Response("init", 0, 0, 0)

NextUpload ==
    \/ \E r \in Uploaders, up \in Uploads :
          UploadCheck(r, up[1], PdfName, up[2])
    \/ \E r \in Uploaders : UploadWrite(r)
    \/ \E r \in Uploaders : UploadCommit(r)
    \/ \E u \in {1, 2}, f \in FileIds : DeleteStoredFile(u, f)
    \/ CleanupOrphanedFiles

SpecUpload == InitUpload /\ [][NextUpload]_vars

(***************************************************************************)
(* SpecBeat: the OCR pipeline under the periodic schedule of celery_app.py *)
(* (beat_schedule, lines 44-60).  Time is counted in hours.  The jobs the  *)
(* schedule names run again and again, the broker delivers, workers take   *)
(* their steps, and a worker may be killed at the hard time limit.         *)
(***************************************************************************)

\* the tasks named by beat_schedule
beat_schedule ==
    {"tasks.cleanup_tasks.cleanup_old_files",
     "tasks.cleanup_tasks.cleanup_failed_tasks",
     "tasks.stats_tasks.generate_daily_stats"}

IsOldFailure(row, hours) ==
    /\ Exists(row)
    /\ row.status = "failed"
    /\ row.created_at < now - hours

\* cleanup_failed_tasks(hours) (tasks/cleanup_tasks.py 83-134): failed
\* tasks created before the cutoff are deleted with their results; then
\* log_system_event(event=...) raises TypeError and the job returns
\* {"status": "error"}
CleanupFailedTasks(hours) ==
    /\ tasks' = [t \in TaskIds |->
                    IF IsOldFailure(tasks[t], hours) THEN DeletedRow
                    ELSE tasks[t]]
    /\ ocr_results' = SelectSeq(ocr_results,
                          LAMBDA r : ~IsOldFailure(tasks[r.task_id], hours))
    /\ resp' = Response("cleanup_failed_tasks", 0, hours, "error")
    /\ UNCHANGED <<now, users, quotas, files, disk, api_usage, jobs,
                   cancel_jobs, engines, tokens, vin, vout>>

\* generate_daily_stats (tasks/stats_tasks.py 17-78) only reads; its query
\* of User.plan (line 97) raises AttributeError and it returns
\* {"status": "error"}
GenerateDailyStats ==
    /\ resp' = Response("generate_daily_stats", 0, now, "error")
    /\ UNCHANGED <<now, users, quotas, files, disk, tasks, ocr_results,
                   api_usage, jobs, cancel_jobs, engines, tokens, vin, vout>>

\* celery beat sends a task of the schedule and a worker of its queue
\* runs it with its default arguments
Beat(entry) ==
    /\ entry \in beat_schedule
    /\ CASE entry = "tasks.cleanup_tasks.cleanup_old_files" ->
               CleanupOldFiles(24 * cleanup_days)
         [] entry = "tasks.cleanup_tasks.cleanup_failed_tasks" ->
               CleanupFailedTasks(failed_task_hours)
         [] entry = "tasks.stats_tasks.generate_daily_stats" ->
               GenerateDailyStats
         [] entry = "tasks.cleanup_tasks.cleanup_stuck_tasks" ->
               CleanupStuckTasks(stuck_hours)

BeatTick ==
    /\ now + BeatStep <= MaxBeatTime
    /\ now' = now + BeatStep
    /\ resp' = Internal
    /\ UNCHANGED <<users, quotas, files, disk, tasks, ocr_results, api_usage,
                   jobs, cancel_jobs, engines, tokens, vin, vout>>

WorkerStep(t) ==
    \/ WorkerStart(t)
    \/ WorkerExtract(t)
    \/ WorkerSelect(t)
    \/ WorkerPage(t)
    \/ WorkerFinalize(t)
    \/ WorkerUsage(t)
    \/ WorkerReturn(t)
    \/ RetryDeliver(t)

NextBeat ==
    \/ \E f \in FileIds : ProcessFileOcr(1, f, "tesseract")
    \/ \E t \in TaskIds : WorkerStep(t)
    \/ \E t \in TaskIds : HardTimeLimit(t)
    \/ Beat("tasks.cleanup_tasks.cleanup_old_files")
    \/ Beat("tasks.cleanup_tasks.cleanup_failed_tasks")
    \/ Beat("tasks.stats_tasks.generate_daily_stats")
    \/ BeatTick

\* the schedule keeps firing, time passes, the broker delivers and the
\* workers that are alive take their steps
SpecBeat ==
    /\ InitOCR
    /\ [][NextBeat]_vars
    /\ WF_vars(BeatTick)
    /\ WF_vars(Beat("tasks.cleanup_tasks.cleanup_old_files"))
    /\ WF_vars(Beat("tasks.cleanup_tasks.cleanup_failed_tasks"))
    /\ WF_vars(Beat("tasks.stats_tasks.generate_daily_stats"))
    /\ \A t \in TaskIds : WF_vars(WorkerStep(t))

(***************************************************************************)
(* SpecSubmit: POST /ocr/process split between its dispatch of the         *)
(* process_ocr_task job (api/ocr.py line 165) and the commit of the        *)
(* OCRTask row (line 184), next to a worker that takes its steps.  vin     *)
(* holds the request the handler is working on, vout its position.         *)
(***************************************************************************)

\* process_file_ocr lines 112-165: the checks, then process_ocr_task.delay
SubmitDispatch(u, f, e) ==
    /\ ActiveCaller(u)
    /\ vout # "dispatched"
    /\ UNCHANGED <<now, users, quotas, files, disk, tasks, ocr_results,
                   api_usage, cancel_jobs, engines, tokens>>
    /\ IF ~Exists(get_file_by_id(f, u))
       THEN /\ resp' = Response("process_file_ocr", u, f, SubmitErrorCode(404))
            /\ UNCHANGED <<jobs, vin, vout>>
       ELSE IF files[f].status # "uploaded"
       THEN /\ resp' = Response("process_file_ocr", u, f, SubmitErrorCode(400))
            /\ UNCHANGED <<jobs, vin, vout>>
       ELSE IF ~check_user_quota(u, 1)
       THEN /\ resp' = Response("process_file_ocr", u, f, SubmitErrorCode(429))
            /\ UNCHANGED <<jobs, vin, vout>>
       ELSE /\ \E t \in TaskIds : tasks[t] = NoTask
            /\ jobs' = [jobs EXCEPT ![NextTaskId] =
                            [NoJob EXCEPT !.phase = "queued", !.pref = e]]
            /\ vin' = <<u, f, NextTaskId>>
            /\ vout' = "dispatched"
            /\ resp' = Response("process_file_ocr", u, f, "dispatched")

\* process_file_ocr lines 167-198: the OCRTask row is added and committed
SubmitCommit ==
    /\ vout = "dispatched"
    /\ tasks' = [tasks EXCEPT ![vin[3]] = NewTask(vin[1], vin[2])]
    /\ vout' = "committed"
    /\ resp' = Response("process_file_ocr", vin[1], vin[2], 200)
    /\ UNCHANGED <<now, users, quotas, files, disk, ocr_results, api_usage,
                   jobs, cancel_jobs, engines, tokens, vin>>

NextSubmit ==
    \/ \E u \in {1, 2}, f \in FileIds : SubmitDispatch(u, f, "tesseract")
    \/ SubmitCommit
    \/ \E t \in TaskIds : WorkerStep(t)
    \/ Tick

\* the handler finishes, the broker delivers and the worker takes its steps
SpecSubmit ==
    /\ InitCancel
    /\ [][NextSubmit]_vars
    /\ WF_vars(SubmitCommit)
    /\ \A t \in TaskIds : WF_vars(WorkerStep(t))

(***************************************************************************)
(* SpecRegister: AuthService.register_user with its two commits, the one   *)
(* of the users row (line 74) and the one of the quota rows in             *)
(* _create_user_quota (line 327), which may fail.  vin holds the id and    *)
(* plan of the registration in progress, vout its position.                *)
(***************************************************************************)
WeakPassword == DefaultAdminPassword
StrongPassword == Password(8, TRUE, TRUE, TRUE, FALSE)

\* register_user lines 45-75: validation, the lookup of an existing user,
\* then the users row is added and committed
RegisterUser(username, password, plan_type) ==
    /\ vout # "user committed"
    /\ NextUserId <= MaxUsers
    /\ UNCHANGED <<now, quotas, files, disk, tasks, ocr_results, api_usage,
                   jobs, cancel_jobs, engines, tokens>>
    /\ IF register_user_outcome(username, password) # "ok"
       THEN /\ resp' = Response("register_user", 0, username, "ValueError")
            /\ vout' = "rejected"
            /\ UNCHANGED <<users, vin>>
       ELSE /\ users' = users_after_register(username, plan_type, FALSE)
            /\ vin' = <<NextUserId, plan_type>>
            /\ vout' = "user committed"
            /\ resp' = Response("register_user", 0, username, "progress")

\* register_user line 78 with _create_user_quota (lines 303-332): the two
\* quota rows are added and committed; when that raises, the session is
\* rolled back and register_user raises ValueError (lines 101-104)
RegisterCreateQuota ==
    /\ vout = "user committed"
    /\ UNCHANGED <<now, users, files, disk, tasks, ocr_results, api_usage,
                   jobs, cancel_jobs, engines, tokens, vin>>
    /\ \/ /\ quotas' = [u \in DOMAIN quotas \cup {vin[1]} |->
                          IF u = vin[1] THEN QuotaRows(vin[2])
                          ELSE quotas[u]]
          /\ vout' = "registered"
          /\ resp' = Response("register_user", 0,
                              users[vin[1]].username, "ok")
       \/ /\ UNCHANGED quotas
          /\ vout' = "failed"
          /\ resp' = Response("register_user", 0,
                              users[vin[1]].username, "ValueError")

InitRegister ==
    /\ now = 0
    /\ users = InitUsers
    /\ quotas = [u \in UserIds |-> QuotaRows(InitUsers[u].plan_type)]
    /\ files = [f \in FileIds |-> NoFile]
    /\ disk = {}
    /\ tasks = [t \in TaskIds |-> NoTask]
    /\ ocr_results = <<>>
    /\ api_usage = <<>>
    /\ jobs = [t \in TaskIds |-> NoJob]
    /\ cancel_jobs = {}
    /\ engines = {"tesseract"}
    /\ tokens = {}
    /\ vin = <<0, "">>
    /\ vout = "idle"
    /\ resp = Response("init", 0, 0, 0)

NextRegister ==
    \/ \E name \in {"bob", "carol", "dave", "erin"},
          pw \in {WeakPassword, StrongPassword},
          plan \in {"free", "premium"} : RegisterUser(name, pw, plan)
    \/ RegisterCreateQuota

SpecRegister == InitRegister /\ [][NextRegister]_vars

(***************************************************************************)
(* SpecPlan: AuthService.update_user_plan called for the registered users  *)
(* and for an id no user has.  The users rows carry api_quota here.        *)
(***************************************************************************)

\* register_user lines 66-73: api_quota of a new users row
RegisteredUser(row) ==
    [username |-> row.username, is_admin |-> row.is_admin,
     is_active |-> row.is_active, plan_type |-> row.plan_type,
     api_quota |-> IF row.plan_type = "free" THEN free_user_daily_quota
                   ELSE premium_user_daily_quota]

\* update_user_plan lines 244-251: plan_type, and api_quota for the plans
\* free and premium
user_after_plan(row, new_plan) ==
    [row EXCEPT !.plan_type = new_plan,
                !.api_quota = IF new_plan = "free"
                              THEN free_user_daily_quota
                              ELSE IF new_plan = "premium"
                              THEN premium_user_daily_quota
                              ELSE @]

\* _update_user_quota (lines 334-351): quota_limit of the daily and the
\* monthly row
quota_after_plan(rows, plan_type) ==
    [rows EXCEPT !.daily.quota_limit =
                     IF plan_type = "free" THEN free_user_daily_quota
                     ELSE premium_user_daily_quota,
                 !.monthly.quota_limit =
                     IF plan_type = "free" THEN free_user_daily_quota * 30
                     ELSE premium_user_daily_quota * 30]

\* AuthService.update_user_plan(db, user_id, new_plan) (lines 231-274)
UpdateUserPlan(u, new_plan) ==
    /\ UNCHANGED <<now, files, disk, tasks, ocr_results, api_usage, jobs,
                   cancel_jobs, engines, tokens, vin, vout>>
    /\ IF u \notin DOMAIN users
       THEN /\ resp' = Response("update_user_plan", u, new_plan, "ValueError")
            /\ UNCHANGED <<users, quotas>>
       ELSE /\ users' = [users EXCEPT ![u] = user_after_plan(@, new_plan)]
            /\ quotas' = [quotas EXCEPT ![u] = quota_after_plan(@, new_plan)]
            /\ resp' = Response("update_user_plan", u, new_plan, "ok")

InitPlan ==
    /\ now = 0
    /\ users = [u \in UserIds |-> RegisteredUser(InitUsers[u])]
    /\ quotas = [u \in UserIds |-> QuotaRows(InitUsers[u].plan_type)]
    /\ files = [f \in FileIds |-> NoFile]
    /\ disk = {}
    /\ tasks = [t \in TaskIds |-> NoTask]
    /\ ocr_results = <<>>
    /\ api_usage = <<>>
    /\ jobs = [t \in TaskIds |-> NoJob]
    /\ cancel_jobs = {}
    /\ engines = {"tesseract"}
    /\ tokens = {}
    /\ vin = <<>>
    /\ vout = <<>>
    /\ resp = Response("init", 0, 0, 0)

NextPlan ==
    \E u \in UserIds \cup {4}, new_plan \in valid_plans :
        UpdateUserPlan(u, new_plan)

SpecPlan == InitPlan /\ [][NextPlan]_vars

(***************************************************************************)
(* SpecEngine: OCRService._select_engine called with every preference on   *)
(* a service that has initialised any subset of its engines.               *)
(***************************************************************************)

\* the keys of self.engines that _initialize_engines can set
\* (services/ocr_service.py lines 78-155)
EngineNames ==
    {"tesseract", "paddleocr", "easyocr", "baidu", "tencent", "ali", "azure"}

\* the preferences of the calls: none, engine names, and "auto"
Preferences == {"none", "auto", "baidu", "paddleocr", "tesseract", "easyocr"}

\* one call of _select_engine(preference); "" stands for its ValueError
SelectEngine(preference) ==
    /\ vin' = preference
    /\ vout' = _select_engine(preference)
    /\ resp' = Response("_select_engine", 0, preference,
                        IF _select_engine(preference) = ""
                        THEN "ValueError" ELSE "ok")
    /\ UNCHANGED <<now, users, quotas, files, disk, tasks, ocr_results,
                   api_usage, jobs, cancel_jobs, engines, tokens>>

InitEngine ==
    /\ now = 0
    /\ users = InitUsers
    /\ quotas = [u \in UserIds |-> QuotaRows(InitUsers[u].plan_type)]
    /\ files = [f \in FileIds |-> NoFile]
    /\ disk = {}
    /\ tasks = [t \in TaskIds |-> NoTask]
    /\ ocr_results = <<>>
    /\ api_usage = <<>>
    /\ jobs = [t \in TaskIds |-> NoJob]
    /\ cancel_jobs = {}
    /\ engines \in SUBSET EngineNames
    /\ tokens = {}
    /\ vin = "none"
    /\ vout = ""
    /\ resp = Response("init", 0, 0, 0)

NextEngine == \E preference \in Preferences : SelectEngine(preference)

SpecEngine == InitEngine /\ [][NextEngine]_vars

(***************************************************************************)
(* SpecOrphan: the OCR pipeline next to everything that deletes rows: file *)
(* deletion, cleanup_old_files, cleanup_failed_tasks and the admin system  *)
(* cleanup.  Time is counted in days.  Rows are deleted only while no job  *)
(* is inside its page loop: what a worker does whose task row disappears   *)
(* under it is left out.                                                   *)
(***************************************************************************)
NoJobRunning == \A t \in TaskIds : jobs[t].phase # "running"

\* the failed tasks that system_cleanup deletes in bulk (api/admin.py
\* 659-662), after the tasks of the files F are gone
OldFailedTasks(days, F) ==
    {t \in TaskIds : /\ Exists(tasks[t])
                     /\ tasks[t].status = "failed"
                     /\ tasks[t].created_at < now - days
                     /\ t \notin TasksOfFiles(F)}

\* POST /admin/cleanup/system (system_cleanup, lines 622-694).  The old
\* files are deleted through the session, which cascades to their tasks
\* and results; the failed tasks are deleted by a bulk DELETE statement,
\* which cascades to nothing.  ocr_results.task_id is a foreign key
\* without ON DELETE: a database that enforces foreign keys refuses the
\* statement while result rows point to the task (rollback, 500), SQLite
\* as configured (config.py 21, no PRAGMA foreign_keys) executes it.
\* After the commit log_system_event is called without its message
\* argument, raises TypeError, and the answer is 500 as well.
SystemCleanup(a, days) ==
    /\ ActiveCaller(a)
    /\ UNCHANGED <<now, users, quotas, jobs, cancel_jobs, engines, tokens,
                   vin, vout>>
    /\ IF ~check_admin_permission(a)
       THEN /\ resp' = Response("system_cleanup", a, days, 403)
            /\ UNCHANGED <<files, disk, tasks, ocr_results, api_usage>>
       ELSE LET F == OldFiles(days)
                T == OldFailedTasks(days, F)
            IN /\ disk' = disk \ F
               /\ resp' = Response("system_cleanup", a, days, 500)
               /\ \/ /\ \E k \in 1..Len(ocr_results) :
                            ocr_results[k].task_id \in T
                     /\ UNCHANGED <<files, tasks, ocr_results, api_usage>>
                  \/ /\ files' = FilesAfterDelete(F)
                     /\ tasks' = [t \in TaskIds |->
                                     IF t \in T \cup TasksOfFiles(F)
                                     THEN DeletedRow ELSE tasks[t]]
                     /\ ocr_results' = ResultsAfterDelete(F)
                     /\ api_usage' = SelectSeq(api_usage,
                            LAMBDA r : ~(r.created_at < now - days))

NextOrphan ==
    \/ \E f \in FileIds : ProcessFileOcr(1, f, "tesseract")
    \/ \E t \in TaskIds : WorkerStep(t)
    \/ \E t \in TaskIds : HardTimeLimit(t)
    \/ \E t \in TaskIds : GetTaskStatus(1, t)
    \/ \E f \in FileIds : NoJobRunning /\ DeleteFile(1, f)
    \/ NoJobRunning /\ CleanupOldFiles(cleanup_days)
    \/ NoJobRunning /\ CleanupFailedTasks(failed_task_hours \div 24)
    \/ \E a \in {1, 3} : NoJobRunning /\ SystemCleanup(a, cleanup_days)
    \/ TickClock

SpecOrphan == InitOCR /\ [][NextOrphan]_vars

(***************************************************************************)
(* SpecInProcess: OCRService.process_file and the coroutine                *)
(* _process_file_async it starts (services/ocr_service.py 438-564), split  *)
(* at its commits.  jobs[t] holds the position of the coroutine of task t. *)
(***************************************************************************)

\* process_file (lines 438-472): the task row is committed as processing
\* and the coroutine is started
ProcessFile(u, f, e) ==
    /\ UNCHANGED <<now, users, quotas, files, disk, ocr_results, api_usage,
                   cancel_jobs, engines, tokens, vin, vout>>
    /\ IF ~Exists(get_file_by_id(f, u))
       THEN /\ resp' = Response("process_file", u, f, "ValueError")
            /\ UNCHANGED <<tasks, jobs>>
       ELSE /\ \E t \in TaskIds : tasks[t] = NoTask
            /\ tasks' = [tasks EXCEPT ![NextTaskId] =
                            [NewTask(u, f) EXCEPT !.status = "processing"]]
            /\ jobs' = [jobs EXCEPT ![NextTaskId] =
                            [NoJob EXCEPT !.phase = "coroutine",
                                          !.pc = "extract", !.pref = e]]
            /\ resp' = Response("process_file", u, f, "ok")

\* the except clause of _process_file_async (lines 556-564): the task is
\* marked failed
AsyncException(t, msg) ==
    /\ tasks' = [tasks EXCEPT ![t] = [@ EXCEPT !.status = "failed",
                                               !.error_message = msg]]
    /\ jobs' = [jobs EXCEPT ![t] = [@ EXCEPT !.phase = "ended",
                                             !.pc = "idle",
                                             !.outcome = "failed"]]
    /\ resp' = Response("_process_file_async", 0, t, "failed")

\* lines 484-491: image extraction, total_pages
AsyncExtract(t) ==
    /\ jobs[t].phase = "coroutine" /\ jobs[t].pc = "extract"
    /\ UNCHANGED <<now, users, quotas, files, disk, ocr_results, api_usage,
                   cancel_jobs, engines, tokens, vin, vout>>
    /\ \/ AsyncException(t, "extract failed")
       \/ /\ tasks' = [tasks EXCEPT ![t] = [@ EXCEPT
                          !.total_pages = files[tasks[t].file_id].pages]]
          /\ jobs' = [jobs EXCEPT ![t] = [@ EXCEPT !.pc = "select"]]
          /\ resp' = Response("_process_file_async", 0, t, "progress")

\* lines 493-496: engine selection, engine_used
AsyncSelect(t) ==
    /\ jobs[t].phase = "coroutine" /\ jobs[t].pc = "select"
    /\ UNCHANGED <<now, users, quotas, files, disk, ocr_results, api_usage,
                   cancel_jobs, engines, tokens, vin, vout>>
    /\ IF _select_engine(jobs[t].pref) = ""
       THEN AsyncException(t, "no engine")
       ELSE /\ tasks' = [tasks EXCEPT ![t] = [@ EXCEPT
                            !.engine_used = _select_engine(jobs[t].pref)]]
            /\ jobs' = [jobs EXCEPT ![t] = [@ EXCEPT !.pc = "page"]]
            /\ resp' = Response("_process_file_async", 0, t, "progress")

\* one iteration of the page loop (lines 499-525): the result row and
\* processed_pages = i + 1 are committed, or the engine call raises, which
\* is logged, and the loop continues
AsyncPage(t) ==
    /\ jobs[t].phase = "coroutine" /\ jobs[t].pc = "page"
    /\ jobs[t].i < tasks[t].total_pages
    /\ UNCHANGED <<now, users, quotas, files, disk, api_usage,
                   cancel_jobs, engines, tokens, vin, vout>>
    /\ \/ \E r \in EngineOutputs :
             /\ ocr_results' = Append(ocr_results,
                                      PageResultRow(t, jobs[t].i + 1, r))
             /\ jobs' = [jobs EXCEPT ![t] = [@ EXCEPT
                            !.i = @ + 1,
                            !.confs = Append(@, r.confidence)]]
             /\ tasks' = [tasks EXCEPT ![t] = [@ EXCEPT
                            !.processed_pages = jobs[t].i + 1]]
             /\ resp' = Response("_process_file_async", 0, t, "page")
       \/ /\ jobs' = [jobs EXCEPT ![t] = [@ EXCEPT !.i = @ + 1]]
          /\ resp' = Response("_process_file_async", 0, t, "page failed")
          /\ UNCHANGED <<tasks, ocr_results>>

\* lines 527-539: status completed, completed_at, confidence_score (left
\* alone when no page succeeded), then the APIUsage row
AsyncFinalize(t) ==
    /\ jobs[t].phase = "coroutine" /\ jobs[t].pc = "page"
    /\ jobs[t].i >= tasks[t].total_pages
    /\ UNCHANGED <<now, users, quotas, files, disk, ocr_results,
                   cancel_jobs, engines, tokens, vin, vout>>
    /\ tasks' = [tasks EXCEPT ![t] = [@ EXCEPT
                    !.status = "completed",
                    !.completed_at = now,
                    !.confidence_score =
                        IF jobs[t].confs # <<>>
                        THEN AvgConfidence(jobs[t].confs) ELSE @]]
    /\ api_usage' = Append(api_usage,
                           UsageRow(tasks[t].user_id, tasks[t].engine_used,
                                    tasks[t].total_pages))
    /\ jobs' = [jobs EXCEPT ![t] = [@ EXCEPT !.phase = "ended",
                                             !.pc = "idle",
                                             !.outcome = "completed"]]
    /\ resp' = Response("_process_file_async", 0, t, "completed")

NextInProcess ==
    \/ \E u \in {1, 2}, f \in FileIds, e \in EnginePrefs : ProcessFile(u, f, e)
    \/ \E t \in TaskIds : AsyncExtract(t)
    \/ \E t \in TaskIds : AsyncSelect(t)
    \/ \E t \in TaskIds : AsyncPage(t)
    \/ \E t \in TaskIds : AsyncFinalize(t)
    \/ Tick

SpecInProcess == InitOCR /\ [][NextInProcess]_vars

(***************************************************************************)
(* Repeated submissions for one file (SpecResubmit): the task table has     *)
(* room for MaxSubmits rows; POST /ocr/process and the worker             *)
(***************************************************************************)

InitResubmit ==
    /\ now = 0
    /\ users = InitUsers
    /\ quotas = [u \in UserIds |-> QuotaRows(InitUsers[u].plan_type)]
    /\ \E n \in 1..MaxPages :
          files = [f \in FileIds |->
                      [status |-> "uploaded", user_id |-> f,
                       file_hash |-> IF f = 1 THEN "d1" ELSE "d2",
                       file_size |-> 5,
                       file_type |-> "pdf", pages |-> n,
                       upload_time |-> 0, processed_at |-> NoneT]]
    /\ disk = FileIds
    /\ tasks = [t \in SubmitIds |-> NoTask]
    /\ ocr_results = <<>>
    /\ api_usage = <<>>
    /\ jobs = [t \in SubmitIds |-> NoJob]
    /\ cancel_jobs = {}
    /\ engines = {"tesseract"}
    /\ tokens = {}
    /\ vin = <<>>
    /\ vout = <<>>
    /\ resp = Response("init", 0, 0, 0)

NextResubmit ==
    \/ \E u \in {1, 2}, f \in FileIds :
          ProcessFileOcrIn(SubmitIds, u, f, "tesseract")
    \/ \E t \in SubmitIds : WorkerStep(t)

SpecResubmit == InitResubmit /\ [][NextResubmit]_vars

(***************************************************************************)
(* SpecCleanup: cleanup_old_files with removals that fail.  Two files are  *)
(* processed, the clock passes the retention time (counted in days), and   *)
(* the job runs while the unlink of some of the old files raises.          *)
(***************************************************************************)

\* the outcome of a cleanup run: the cutoff and the files whose removal
\* raised
CleanupRun(days, B) == [days |-> days, raised |-> B]

\* cleanup_old_files (tasks/cleanup_tasks.py 16-80) when file_path.unlink()
\* raises for the files of B: the inner except clause logs and continues
\* (lines 54-56), so these files keep their rows and their disk objects;
\* the others are deleted and committed (line 58).  Then
\* log_system_event(event=...) raises TypeError (lines 61-68), the outer
\* except clause rolls back the already committed session and the job
\* returns {"status": "error"}.
CleanupOldFilesRaising(days, B) ==
    /\ B \subseteq OldFiles(days) \cap disk
    /\ disk' = disk \ (OldFiles(days) \ B)
    /\ files' = FilesAfterDelete(OldFiles(days) \ B)
    /\ tasks' = TasksAfterDelete(OldFiles(days) \ B)
    /\ ocr_results' = ResultsAfterDelete(OldFiles(days) \ B)
    /\ resp' = Response("cleanup_old_files", 0, CleanupRun(days, B), "error")
    /\ UNCHANGED <<now, users, quotas, api_usage, jobs, cancel_jobs, engines,
                   tokens, vin, vout>>

NextCleanup ==
    \/ \E f \in FileIds : ProcessFileOcrIn(SubmitIds, f, f, "tesseract")
    \/ \E t \in SubmitIds : RunOcrTask(t)
    \/ \E B \in SUBSET FileIds : CleanupOldFilesRaising(cleanup_days, B)
    \/ TickClock

SpecCleanup == InitResubmit /\ [][NextCleanup]_vars

(***************************************************************************)
(* SpecUsage: the OCR pipeline on services whose live engines are          *)
(* tesseract, baidu or both (OCRService.engines, ocr_service.py 78-155),   *)
(* with a request that prefers one of the two.                             *)
(***************************************************************************)

\* the engines a deployment has initialised
UsageEngines == {"tesseract", "baidu"}

InitUsage ==
    /\ now = 0
    /\ users = InitUsers
    /\ quotas = [u \in UserIds |-> QuotaRows(InitUsers[u].plan_type)]
    /\ \E n \in 1..MaxPages :
          files = [f \in FileIds |->
                      [status |-> "uploaded", user_id |-> f,
                       file_hash |-> IF f = 1 THEN "d1" ELSE "d2",
                       file_size |-> 5,
                       file_type |-> "pdf", pages |-> n,
                       upload_time |-> 0, processed_at |-> NoneT]]
    /\ disk = FileIds
    /\ tasks = [t \in TaskIds |-> NoTask]
    /\ ocr_results = <<>>
    /\ api_usage = <<>>
    /\ jobs = [t \in TaskIds |-> NoJob]
    /\ cancel_jobs = {}
    /\ engines \in (SUBSET UsageEngines) \ {{}}
    /\ tokens = {}
    /\ vin = <<>>
    /\ vout = <<>>
    /\ resp = Response("init", 0, 0, 0)

NextUsage ==
    \/ \E u \in {1, 2}, f \in FileIds, e \in UsageEngines :
          ProcessFileOcr(u, f, e)
    \/ \E t \in TaskIds : WorkerStep(t)
    \/ Tick

SpecUsage == InitUsage /\ [][NextUsage]_vars

(***************************************************************************)
(* Properties of the OCR pipeline (SpecOCR)                                *)
(***************************************************************************)
TerminalStatuses == {"completed", "failed", "cancelled"}

\* the OCRResult rows of a task, in insertion order
RowsOf(t) == SelectSeq(ocr_results, LAMBDA r : r.task_id = t)

IsFailureRow(r) ==
    r.text_content = "" /\ r.confidence_score = 0 /\ r.error_message # ""

RowsWithHash(u, h) ==
    {f \in FileIds : /\ Exists(files[f])
                     /\ files[f].user_id = u
                     /\ files[f].file_hash = h}

OneRowPerUserAndHash ==
    \A f, g \in FileIds :
        (/\ Exists(files[f]) /\ Exists(files[g])
         /\ files[f].user_id = files[g].user_id
         /\ files[f].file_hash = files[g].file_hash) => f = g

\* C5: an upload that passes validation, of content c by user u, returns
\* the existing File row of (u, hash(c)) when there is one, creating no
\* row and writing nothing to storage; otherwise it creates one new row
\* (and one disk object) for u and leaves every other row alone, also when
\* another user already has a row with the same hash.  After every step
\* there is at most one row for a user and a hash.
C5_UploadDedup ==
    [][ /\ (resp'.op = "save_uploaded_file" /\ resp'.code = "ok") =>
              LET u == resp'.caller
                  h == calculate_file_hash(vin'[2])
              IN IF RowsWithHash(u, h) # {}
                 THEN /\ resp'.target \in RowsWithHash(u, h)
                      /\ files' = files
                      /\ disk' = disk
                 ELSE /\ ~Exists(files[resp'.target])
                      /\ Exists(files'[resp'.target])
                      /\ files'[resp'.target].user_id = u
                      /\ files'[resp'.target].file_hash = h
                      /\ files'[resp'.target].status = "uploaded"
                      /\ \A g \in FileIds \ {resp'.target} : files'[g] = files[g]
                      /\ disk' = disk \cup {resp'.target}
        /\ OneRowPerUserAndHash' ]_vars

\* user 1 uploads the bytes "A" again, later than the first time, and gets
\* the old row back, while another user holds a row with the same hash
C5_Witness ==
    /\ resp.op = "save_uploaded_file"
    /\ resp.code = "ok"
    /\ resp.caller = 1
    /\ vin[2].body = "A"
    /\ files[resp.target].upload_time < now
    /\ Cardinality(RowsWithHash(1, "d1")) = 1
    /\ Cardinality(RowsWithHash(2, "d1")) = 1

(***************************************************************************)
(* Properties of validate_file (SpecValidate)                              *)
(***************************************************************************)

\* the allow-list and the signatures as the specification gives them
C6_AllowList ==
    {<<".", "p", "d", "f">>, <<".", "p", "n", "g">>, <<".", "j", "p", "g">>,
     <<".", "j", "p", "e", "g">>, <<".", "t", "i", "f", "f">>,
     <<".", "b", "m", "p">>}

C6_Signatures(ext) ==
    CASE ext = <<".", "p", "d", "f">> -> {<<37, 80, 68, 70>>}
      [] ext = <<".", "p", "n", "g">> -> {<<137, 80, 78, 71>>}
      [] ext \in {<<".", "j", "p", "g">>, <<".", "j", "p", "e", "g">>}
            -> {<<255, 216, 255>>}
      [] ext = <<".", "t", "i", "f", "f">>
            -> {<<73, 73, 42, 0>>, <<77, 77, 0, 42>>}
      [] ext = <<".", "b", "m", "p">> -> {<<66, 77>>}
      [] OTHER -> {}

C6_HasSignature(ext, content) ==
    /\ content.size >= 4
    /\ \E sig \in C6_Signatures(ext) :
          /\ Len(sig) <= Len(content.head)
          /\ \A k \in 1..Len(sig) : content.head[k] = sig[k]

\* C6: validate_file checks in this order the extension against the
\* allow-list (UNSUPPORTED_FILE_TYPE), the size against 50 MiB
\* (FILE_TOO_LARGE) and the signature of the claimed extension
\* (INVALID_FILE_CONTENT); otherwise it succeeds, which is exactly when the
\* content has at least 4 bytes and starts with a signature of the
\* extension.  Content shorter than 4 bytes is never valid.
C6_ValidateFile ==
    resp.op = "validate_file" =>
        LET ext == FileExt(vin[1])
            content == vin[2]
        IN /\ IF ext \notin C6_AllowList
              THEN vout = [valid |-> FALSE, code |-> "UNSUPPORTED_FILE_TYPE"]
              ELSE IF content.size > 50 * 1024 * 1024
              THEN vout = [valid |-> FALSE, code |-> "FILE_TOO_LARGE"]
              ELSE IF ~C6_HasSignature(ext, content)
              THEN vout = [valid |-> FALSE, code |-> "INVALID_FILE_CONTENT"]
              ELSE vout.valid
           /\ content.size < 4 => ~vout.valid

\* content starting with %PDF was validated under a .png name
C6_Witness ==
    /\ resp.op = "validate_file"
    /\ FileExt(vin[1]) = <<".", "p", "n", "g">>
    /\ vin[2].head = <<37, 80, 68, 70>>
    /\ vin[2].size = 5
    /\ vout = [valid |-> FALSE, code |-> "INVALID_FILE_CONTENT"]

(***************************************************************************)
(* Properties of cleanup and ownership (SpecFiles)                         *)
(***************************************************************************)

\* C8: an age-based file cleanup with cutoff d days deletes every File row
\* with status completed or failed and upload_time older than now - d,
\* with the OCRTask and OCRResult rows of that file, and leaves every other
\* File row as it is.
C8_AgeCleanup ==
    [][ resp'.op \in {"cleanup_old_files", "FileService.cleanup_old_files"} =>
          \A f \in FileIds : Exists(files[f]) =>
              IF /\ files[f].status \in {"completed", "failed"}
                 /\ files[f].upload_time < now - resp'.target
              THEN /\ ~Exists(files'[f])
                   /\ \A t \in TaskIds :
                         (Exists(tasks[t]) /\ tasks[t].file_id = f) =>
                             /\ ~Exists(tasks'[t])
                             /\ \A k \in 1..Len(ocr_results') :
                                   ocr_results'[k].task_id # t
              ELSE files'[f] = files[f] ]_vars

FileOps == {"get_file_info", "download_file", "delete_file", "process_file_ocr"}
TaskOps == {"get_task_status", "get_ocr_result", "cancel_task"}

\* C10: a file or task operation invoked by user A leaves the File rows,
\* disk objects and OCRTask rows of every other user unchanged, lists and
\* deletes only A's rows, and is answered as not found (404; the 400
\* "file does not exist" of a delete counts) when it names a File or
\* OCRTask of another user.
C10_OwnershipIsolation ==
    [][ (resp'.op \in FileOps \cup TaskOps
                      \cup {"get_user_files", "delete_multiple_files"}) =>
          LET A == resp'.caller
          IN /\ \A f \in FileIds :
                   (Exists(files[f]) /\ files[f].user_id # A) =>
                       /\ files'[f] = files[f]
                       /\ (f \in disk') = (f \in disk)
             /\ \A t \in TaskIds :
                   (Exists(tasks[t]) /\ tasks[t].user_id # A) =>
                       tasks'[t] = tasks[t]
             /\ resp'.op \in {"get_user_files", "delete_multiple_files"} =>
                   \A f \in resp'.target : files[f].user_id = A
             /\ (/\ resp'.op \in FileOps
                 /\ Exists(files[resp'.target])
                 /\ files[resp'.target].user_id # A) =>
                    \/ resp'.code = 404
                    \/ resp'.op = "delete_file" /\ resp'.code = 400
             /\ (/\ resp'.op \in TaskOps
                 /\ Exists(tasks[resp'.target])
                 /\ tasks[resp'.target].user_id # A) =>
                    resp'.code = 404 ]_vars

(***************************************************************************)
(* Properties of accounts and tokens (SpecAuth)                            *)
(***************************************************************************)

\* C7: DELETE /admin/users/{id}, DELETE /auth/account and POST
\* /users/deactivate on a user whose is_admin is true are rejected (an
\* error status) and leave the user's is_active as it was, whoever calls.
C7_AdminNeverDeactivated ==
    [][ \A u \in UserIds :
          (/\ resp'.op \in {"delete_user", "delete_account",
                            "deactivate_account"}
           /\ resp'.target = u
           /\ users[u].is_admin) =>
              /\ resp'.code >= 400
              /\ users'[u].is_active = users[u].is_active ]_vars

C11_Level(plan) ==
    CASE plan = "free" -> 0
      [] plan = "basic" -> 1
      [] plan = "premium" -> 2
      [] plan = "enterprise" -> 3

\* C11: POST /users/upgrade-plan with a plan of the four tiers whose level
\* is below or equal to the caller's current one is rejected by the
\* service (a 4xx answer) and leaves the caller's plan and quota rows
\* unchanged; a plan name outside the four tiers is rejected as invalid
\* input (400).
C11_NoDowngrade ==
    [][ resp'.op = "upgrade_user_plan" =>
          LET u == resp'.caller
              new == resp'.target
              tiers == {"free", "basic", "premium", "enterprise"}
          IN /\ new \notin tiers => resp'.code = 400
             /\ (new \in tiers
                   /\ C11_Level(new) <= C11_Level(users[u].plan_type)) =>
                    /\ resp'.code \in 400..499
                    /\ users'[u].plan_type = users[u].plan_type
                    /\ quotas'[u] = quotas[u] ]_vars

(***************************************************************************)
(* Properties of the bootstrap utility (SpecBootstrap)                     *)
(***************************************************************************)

\* C12: a run of the bootstrap utility against a store without a user
\* named admin creates one user named admin, an administrator on the
\* enterprise plan, together with its daily and monthly quota rows.
C12_BootstrapCreatesAdmin ==
    [][ (resp'.op = "init_admin_user" /\ UsersWithName("admin") = {}) =>
          \E u \in DOMAIN users' \ DOMAIN users :
              /\ users'[u].username = "admin"
              /\ users'[u].is_admin
              /\ users'[u].plan_type = "enterprise"
              /\ u \in DOMAIN quotas'
              /\ quotas'[u].daily.quota_used = 0
              /\ quotas'[u].monthly.quota_used = 0 ]_vars

\* C13: a run of the bootstrap utility that directly follows another run
\* leaves the users table as it is; no run adds a user when a user named
\* admin exists, or leaves more than one user named admin, or takes
\* is_admin away from anyone; an existing user named admin who is not an
\* administrator is made one in place.
C13_BootstrapIdempotent ==
    [][ resp'.op = "init_admin_user" =>
          /\ resp.op = "init_admin_user" => users' = users
          /\ UsersWithName("admin") # {} => DOMAIN users' = DOMAIN users
          /\ Cardinality({u \in DOMAIN users' :
                             users'[u].username = "admin"}) <= 1
          /\ \A u \in DOMAIN users :
                 /\ u \in DOMAIN users'
                 /\ users[u].is_admin => users'[u].is_admin
                 /\ users[u].username = "admin" =>
                        /\ users'[u].is_admin
                        /\ users'[u] = [users[u] EXCEPT !.is_admin = TRUE] ]_vars

\* a run has promoted an existing user named admin
C13_Witness ==
    /\ resp.op = "init_admin_user"
    /\ resp.target = "promoted"
    /\ \E u \in DOMAIN users : users[u].username = "admin" /\ users[u].is_admin

(***************************************************************************)
(* Properties of quota and submission (SpecQuota)                          *)
(***************************************************************************)

\* n more units fit under the daily and the monthly ceiling of user u
C14_Within(u, n) ==
    /\ quotas[u].daily.quota_used + n <= quotas[u].daily.quota_limit
    /\ quotas[u].monthly.quota_used + n <= quotas[u].monthly.quota_limit

\* the files of F that user u may submit
C14_ValidFiles(u, F) ==
    {f \in F : /\ Exists(files[f])
               /\ files[f].user_id = u
               /\ files[f].status = "uploaded"}

\* C14: an OCR submission (single, or a batch of n valid files) is
\* accepted only when the usage plus the number of files stays within the
\* daily and the monthly limit; a submission of valid files that does not
\* fit is answered 429 and creates no OCRTask row and no job.
C14_QuotaCeiling ==
    [][ resp'.op \in {"process_file_ocr", "process_batch_ocr"} =>
          LET u == resp'.caller
              F == IF resp'.op = "process_file_ocr" THEN {resp'.target}
                   ELSE resp'.target
              n == Cardinality(C14_ValidFiles(u, F))
          IN /\ resp'.code = 200 => C14_Within(u, Cardinality(F))
             /\ (n > 0 /\ n = Cardinality(F) /\ ~C14_Within(u, n)) =>
                    /\ resp'.code = 429
                    /\ tasks' = tasks
                    /\ jobs' = jobs ]_vars

\* C15: POST /ocr/process answers 404 for a file that does not exist or
\* belongs to another user, 400 for a file whose status is not uploaded
\* and 429 when the quota does not admit one more file; it answers 500 in
\* none of these cases, and none of them adds an OCRTask row.
C15_SubmissionErrors ==
    [][ resp'.op = "process_file_ocr" =>
          LET u == resp'.caller
              f == resp'.target
              missing == ~(Exists(files[f]) /\ files[f].user_id = u)
              unready == ~missing /\ files[f].status # "uploaded"
              over == ~missing /\ ~unready /\ ~C14_Within(u, 1)
          IN /\ missing => resp'.code = 404
             /\ unready => resp'.code = 400
             /\ over => resp'.code = 429
             /\ (missing \/ unready \/ over) =>
                    /\ resp'.code # 500
                    /\ tasks' = tasks ]_vars

\* max(0, x)
C17_Max0(x) == IF x > 0 THEN x ELSE 0

\* C17: quota_used of every daily and monthly row is at least 0, and GET
\* /users/quota reports for each row the remaining quota
\* max(0, quota_limit - quota_used), which is never negative.
C17_RemainingQuota ==
    /\ \A u \in DOMAIN quotas :
          /\ quotas[u].daily.quota_used >= 0
          /\ quotas[u].monthly.quota_used >= 0
    /\ resp.op = "get_user_quota" =>
          /\ resp.code = 200
          /\ resp.target.daily_remaining =
                C17_Max0(quotas[resp.caller].daily.quota_limit
                           - quotas[resp.caller].daily.quota_used)
          /\ resp.target.monthly_remaining =
                C17_Max0(quotas[resp.caller].monthly.quota_limit
                           - quotas[resp.caller].monthly.quota_used)
          /\ resp.target.daily_remaining >= 0
          /\ resp.target.monthly_remaining >= 0

(***************************************************************************)
(* Batch deletion (SpecFiles)                                              *)
(***************************************************************************)

\* C16: DELETE /files/batch with at most 50 identifiers is carried out
\* item by item and answered 200 with the list of the identifiers it
\* deleted: exactly the File rows that the request removed, all of them
\* the caller's; a request that is rejected (more than 50 identifiers)
\* deletes nothing.
C16_BatchDelete ==
    [][ resp'.op = "delete_multiple_files" =>
          LET removed == {f \in FileIds :
                             Exists(files[f]) /\ ~Exists(files'[f])}
          IN /\ resp'.code \in {200, 400}
             /\ resp'.code = 200 =>
                    /\ resp'.target = removed
                    /\ \A f \in removed : files[f].user_id = resp'.caller
             /\ resp'.code = 400 => removed = {} ]_vars

(***************************************************************************)
(* Properties of the worker job (SpecOCR)                                  *)
(***************************************************************************)

\* the rows of task t that are no failure rows
C18_PageRows(t) == SelectSeq(RowsOf(t), LAMBDA r : ~IsFailureRow(r))

C19_NotPendingNoEffect ==
    [][ \A t \in TaskIds :
          ( /\ resp'.op = "process_ocr_task"
            /\ resp'.target = t
            /\ jobs[t].phase = "queued"
            /\ ~jobs[t].revoked
            /\ (~Exists(tasks[t]) \/ tasks[t].status # "pending") )
          => /\ resp'.code = "error"
             /\ jobs'[t].phase = "ended"
             /\ jobs'[t].outcome = "error"
             /\ jobs'[t].retries = jobs[t].retries
             /\ tasks' = tasks
             /\ ocr_results' = ocr_results
             /\ files' = files
             /\ api_usage' = api_usage
             /\ quotas' = quotas ]_vars

\* a retried job found its task failed and returned error
C19_Witness ==
    /\ resp.op = "process_ocr_task"
    /\ resp.code = "error"
    /\ jobs[resp.target].retries > 0
    /\ tasks[resp.target].status = "failed"

C22_OneRowPerHash ==
    \A u \in UserIds, h \in {"d1", "d2", "d3"} :
        Cardinality(RowsWithHash(u, h)) <= 1

\* C26: a File row is created only by an upload whose disk write has
\* succeeded, and removed only in a step after which its disk object is
\* gone; a SaveUpload or Delete that fails leaves the File rows as they
\* were; and after a failed SaveUpload the file it wrote is not on disk.
C26_StorageFailures ==
    [][ /\ \A f \in FileIds :
              /\ (~Exists(files[f]) /\ Exists(files'[f])) =>
                     \E r \in Uploaders :
                        /\ vin[r].pc = "written"
                        /\ vin[r].path = files'[f].file_path
              /\ (Exists(files[f]) /\ ~Exists(files'[f])) =>
                     files[f].file_path \notin disk'
        /\ (/\ resp'.op \in {"save_uploaded_file", "delete_file"}
            /\ resp'.code = "ValueError") => files' = files
        /\ \A r \in Uploaders :
              (/\ vin[r].pc # "idle"
               /\ vin'[r].pc = "idle"
               /\ resp'.op = "save_uploaded_file"
               /\ resp'.code = "ValueError") => vin[r].path \notin disk' ]_vars

\* an upload failed at its commit after its file had been written
C26_Witness ==
    /\ resp.op = "save_uploaded_file"
    /\ resp.code = "ValueError"
    /\ resp.target.raised = "commit"
    /\ resp.target.path \notin disk
    /\ \E f \in FileIds : Exists(files[f])

\* C27: a run of cleanup_orphaned_files removes no disk object that a File
\* row records and none that an upload in progress has written and is
\* about to commit.
C27_OrphanCleanup ==
    [][ resp'.op = "cleanup_orphaned_files" =>
          /\ \A f \in FileIds :
                (Exists(files[f]) /\ files[f].file_path \in disk) =>
                    files[f].file_path \in disk'
          /\ \A r \in Uploaders :
                vin[r].pc = "written" => vin[r].path \in disk' ]_vars

(***************************************************************************)
(* Properties of the maintenance jobs (SpecBeat, SpecOCR)                  *)
(***************************************************************************)

\* C23: under the periodic schedule, every task that has been in
\* processing for more than stuck_hours is eventually marked failed.
C23_StuckEventuallyFailed ==
    \A t \in TaskIds :
        IsStuck(tasks[t], stuck_hours) ~>
            (Exists(tasks[t]) /\ tasks[t].status = "failed")

C24_WitnessRecent ==
    /\ resp.op = "cleanup_stuck_tasks"
    /\ \E t \in TaskIds :
          /\ tasks[t].status = "processing"
          /\ tasks[t].started_at >= now - stuck_hours

C28_RegisterAtomic ==
    [][ /\ vout' # "user committed" =>
              \A u \in DOMAIN users' :
                 /\ u \in DOMAIN quotas'
                 /\ DOMAIN quotas'[u] = {"daily", "monthly"}
        /\ (resp'.op = "register_user" /\ resp'.code = "ValueError") =>
              /\ quotas' = quotas
              /\ IF vout = "user committed"
                 THEN vin[1] \notin DOMAIN users'
                 ELSE users' = users ]_vars

\* C29: after UpdatePlan(user, new_plan) succeeds, the user's plan is
\* new_plan, the daily limit is the free-tier constant for free and the
\* premium constant otherwise, the monthly limit is 30 times the daily
\* limit, api_quota equals the daily limit, and quota_used of both rows is
\* unchanged.
C29_PlanAndQuota ==
    [][ (resp'.op = "update_user_plan" /\ resp'.code = "ok") =>
          LET u == resp'.caller
              daily == quotas'[u].daily.quota_limit
          IN /\ users'[u].plan_type = resp'.target
             /\ daily = IF resp'.target = "free" THEN free_user_daily_quota
                        ELSE premium_user_daily_quota
             /\ quotas'[u].monthly.quota_limit = 30 * daily
             /\ users'[u].api_quota = daily
             /\ quotas'[u].daily.quota_used = quotas[u].daily.quota_used
             /\ quotas'[u].monthly.quota_used = quotas[u].monthly.quota_used
      ]_vars

(***************************************************************************)
(* Properties of engine selection (SpecEngine)                             *)
(***************************************************************************)

\* the auto priority list of the claim
C30_AutoList == <<"baidu", "paddleocr", "tesseract">>

\* C30: SelectEngine(preference) returns the preference when it names a
\* live engine, otherwise the first live engine of the auto priority list,
\* and fails only when no engine of that list is live.
C30_SelectEngine ==
    resp.op = "_select_engine" =>
        LET live == SelectSeq(C30_AutoList, LAMBDA e : e \in engines)
        IN IF vin # "none" /\ vin \in engines THEN vout = vin
           ELSE IF live # <<>> THEN vout = Head(live)
           ELSE vout = ""

(***************************************************************************)
(* Properties of the administration endpoints (SpecOCR)                    *)
(***************************************************************************)

C35_Allowed ==
    {<<"uploaded", "processing">>, <<"processing", "completed">>,
     <<"processing", "failed">>}

\* C35: File.status changes only along uploaded -> processing ->
\* completed | failed; when the worker starts executing a task its File is
\* processing, when the worker returns completed the File is completed
\* with processed_at stamped, and when the worker marks the task failed
\* the File is failed.
C35_FileStatus ==
    [][ /\ \A f \in FileIds :
              files'[f].status # files[f].status =>
                  <<files[f].status, files'[f].status>> \in C35_Allowed
        /\ resp'.op = "process_ocr_task" =>
              LET t == resp'.target
              IN /\ (resp'.code = "progress" /\ jobs'[t].phase = "running") =>
                        files'[tasks'[t].file_id].status = "processing"
                 /\ resp'.code = "completed" =>
                        /\ files'[tasks'[t].file_id].status = "completed"
                        /\ files'[tasks'[t].file_id].processed_at = now
                 /\ (resp'.code \in {"retry", "failed"}
                        /\ tasks'[t].status = "failed") =>
                        files'[tasks'[t].file_id].status = "failed" ]_vars

(***************************************************************************)
(* Properties of repeated submissions (SpecResubmit)                       *)
(***************************************************************************)

\* the tasks of file f that are pending or processing
ActiveTasksOf(f) ==
    {t \in DOMAIN tasks : /\ Exists(tasks[t])
                          /\ tasks[t].file_id = f
                          /\ tasks[t].status \in {"pending", "processing"}}

C37_QuotaRollover ==
    [][ resp'.op = "update_user_quotas" =>
          /\ \A u \in UserIds :
                /\ IF now >= quotas[u].daily.reset_time
                   THEN /\ quotas'[u].daily.quota_used = 0
                        /\ quotas'[u].daily.reset_time > now
                   ELSE quotas'[u].daily = quotas[u].daily
                /\ IF MonthStart(now) >= MonthStart(quotas[u].monthly.reset_time)
                   THEN /\ quotas'[u].monthly.quota_used = 0
                        /\ MonthStart(quotas'[u].monthly.reset_time)
                              > MonthStart(now)
                   ELSE quotas'[u].monthly = quotas[u].monthly
                /\ quotas'[u].daily.quota_limit = quotas[u].daily.quota_limit
                /\ quotas'[u].monthly.quota_limit
                      = quotas[u].monthly.quota_limit
          /\ resp.op = "update_user_quotas" => quotas' = quotas ]_vars

(***************************************************************************)
(* Properties of the cleanup job with failing removals (SpecCleanup)       *)
(***************************************************************************)

\* C38: in cleanup_old_files a file whose removal fails keeps its File
\* row, every other eligible file is deleted and the job returns success;
\* a job that returns error has deleted no row.
C38_CleanupSkipsFailures ==
    [][ resp'.op = "cleanup_old_files" =>
          /\ resp'.code \in {"success", "error"}
          /\ resp'.target.raised # {} => resp'.code = "success"
          /\ resp'.code = "success" =>
                \A f \in OldFiles(resp'.target.days) :
                    IF f \in resp'.target.raised
                    THEN files'[f] = files[f]
                    ELSE ~Exists(files'[f])
          /\ resp'.code = "error" =>
                /\ files' = files
                /\ tasks' = tasks
                /\ ocr_results' = ocr_results ]_vars

(***************************************************************************)
(* Properties of the usage records (SpecUsage)                             *)
(***************************************************************************)

\* the per-page cost the claim names, in units of 0.001
C39_CostPerPage(e) == IF e = "baidu" THEN 4 ELSE 0

\* the executions that returned completed
C39_Completed(j) == {t \in TaskIds : j[t].outcome = "completed"}

=============================================================================
